---- MODULE Spec2Model ----
(***************************************************************************)
(* Benchmark orchestration core of on24llmoptimizer: BenchmarkEngine.run   *)
(* with its thread pool of _run_single work items, the sqlite tables they  *)
(* write (database.py), the metrics recomputation (metrics.py), the        *)
(* "Run Benchmark" page's stuck-run reset, and _RateLimiter.wait.          *)
(*                                                                         *)
(* The model follows one benchmark_runs record through its life: created   *)
(* by engine.run(), resumed by engine.run(run_id=...).  Times are in half  *)
(* seconds, sentiment scores in tenths.                                    *)
(***************************************************************************)
EXTENDS Integers, Sequences, FiniteSets, TLC

VARIABLES
    status,             \* benchmark_runs.status of the run ("none": no record yet)
    completed_queries,  \* benchmark_runs.completed_queries
    responses,          \* rows of table responses
    mentions,           \* rows of table mentions
    citations,          \* rows of table citations
    daily_metrics,      \* rows of table daily_metrics
    inv,                \* number of engine.run invocations started so far
    pc,                 \* position of the executing invocation's main thread
    item,               \* per (query, engine) pair: state of its _run_single future
    consumed,           \* futures already yielded by as_completed
    done_count,         \* local done_count of engine.run
    reported,           \* the counts given to progress_callback by this invocation
    called,             \* pairs for which client.query was called in this invocation
    metrics0,           \* daily_metrics when this invocation found no work left
    exit0,              \* last_exit when this invocation found no work left
    last_exit,          \* how the latest invocation ended
    stuck_runs,         \* the page's stuck_runs list holds the run
    clock,              \* time.time()
    lock,               \* _RateLimiter._locks: holder of each engine's lock
    last_call,          \* _RateLimiter._last_call
    caller,             \* per thread: its position in _RateLimiter.wait
    returned_at,        \* per engine: the times of the latest two returns of wait()
    client,             \* the provider client whose query() was called last
    cpc,                \* position of that call of query()
    attempt_number,     \* tenacity's attempt_number of that call
    waited,             \* per client: _wait() has returned since its last request
    requests,           \* the external requests that call has issued
    result,             \* what that call returned
    netloc,             \* the host last given to _classify_citation_domain
    classification,     \* what _classify_citation_domain returned for it
    parse_input,        \* the secondary call's outcome last given to parse_response
    parse_result,       \* what parse_response returned for it
    metric_mentions,    \* rows of table mentions given to compute_daily_metrics
    metric_rows,        \* rows of table daily_metrics in that database
    metric_prev,        \* metric_rows before the latest compute_daily_metrics
    metric_orders,      \* set iteration order of each call's process
    metric_scan,        \* the order in which that database returns a group's rows
    mpc,                \* how many times compute_daily_metrics has run
    query_library,      \* the library given to seed_queries
    queries,            \* rows of table queries
    queries_once,       \* rows of table queries after the first seed_queries
    seeds,              \* number of seed_queries calls so far, -1 before the draw
    credentials,        \* the providers whose API key the settings hold
    constructed,        \* how BenchmarkEngine() ended in this process
    work,               \* per pool thread: its position in lines 69-71 of _run_single
    client_last_call,   \* per provider client: its own _last_call
    counter_responses,  \* rows of table responses of a run over two queries
    counter_item,       \* per pair of that run: state of its work item
    counter_pc,         \* position of the invocation executing on that run
    counter_done,       \* its local done_count
    counter_completed,  \* benchmark_runs.completed_queries of that run
    counter_runs,       \* number of invocations started on that run
    overlap_responses,  \* rows of table responses of a run with two invocations at once
    overlap_item,       \* per invocation and pair: state of its work item
    overlap_pc          \* per invocation: its position

engine_vars == <<status, completed_queries, responses, mentions, citations,
                 daily_metrics, inv, pc, item, consumed, done_count, reported,
                 called, metrics0, exit0, last_exit, stuck_runs>>
limiter_vars == <<clock, lock, last_call, caller, returned_at>>
client_vars == <<client, cpc, attempt_number, waited, requests, result>>
\* arguments and results of the functions and the constructor checked on
\* their own
classifier_vars == <<netloc, classification>>
parser_vars == <<parse_input, parse_result>>
metric_vars == <<metric_mentions, metric_rows, metric_prev, metric_orders,
                 metric_scan, mpc>>
seed_vars == <<query_library, queries, queries_once, seeds>>
construct_vars == <<credentials, constructed>>
function_vars == <<classifier_vars, parser_vars, metric_vars, seed_vars,
                   construct_vars>>
\* parts of the engine checked on their own
gate_vars == <<work, client_last_call>>
counter_vars == <<counter_responses, counter_item, counter_pc, counter_done,
                  counter_completed, counter_runs>>
overlap_vars == <<overlap_responses, overlap_item, overlap_pc>>
run_vars == <<gate_vars, counter_vars, overlap_vars>>
pure_vars == <<function_vars, run_vars>>
vars == <<engine_vars, limiter_vars, client_vars, pure_vars>>

----------------------------------------------------------------------------
(* Bounds *)
MaxInvocations == 2
NumCallers == 2
MaxClock == 11

----------------------------------------------------------------------------
(* Configuration *)
ENGINES == <<"grok_web_search", "chatgpt_web_search", "claude_parametric">>
EngineSet == {ENGINES[i] : i \in 1..Len(ENGINES)}
TRACKED_BRANDS == <<"on24", "goldcast", "zoom">>
\* get_active_queries(): the ids of the active queries; the queries table of
\* the model holds one active query
active_queries == {1}
AllPairs == active_queries \X EngineSet
max_workers == 2
\* seconds between requests per engine, in half seconds
ENGINE_DELAYS ==
    [e \in EngineSet |-> IF e = "grok_web_search" THEN 5 ELSE 3]
Callers == 1..NumCallers
SentimentLabels == {"positive", "neutral", "negative"}

NULL == <<>>
Some(x) == <<x>>

----------------------------------------------------------------------------
(* What the provider and the normalizer answer for a pair, when they answer *)

\* parser.parse_response(result["raw_response"])["mentions"]; a position is
\* Some(n), or NULL for None
ParsedMentions(p) ==
    CASE p[2] = "grok_web_search" ->
           << [brand |-> "on24", position |-> Some(1), sentiment |-> "positive",
               sentiment_score |-> 8, is_primary_recommendation |-> TRUE],
              [brand |-> "on24", position |-> Some(3), sentiment |-> "neutral",
               sentiment_score |-> 0, is_primary_recommendation |-> FALSE] >>
      [] p[2] = "chatgpt_web_search" ->
           << [brand |-> "goldcast", position |-> Some(1), sentiment |-> "positive",
               sentiment_score |-> 5, is_primary_recommendation |-> TRUE] >>
      [] OTHER -> << >>

\* the normalized mentions of an answer in which the secondary call gave one
\* mention of a brand no position ("position": null, "mention_order": null,
\* kept as None by line 78 of parser.py) and another mention of it a number
UnplacedMentions ==
    << [brand |-> "on24", position |-> NULL, sentiment |-> "positive",
        sentiment_score |-> 8, is_primary_recommendation |-> TRUE],
       [brand |-> "on24", position |-> Some(2), sentiment |-> "neutral",
        sentiment_score |-> 0, is_primary_recommendation |-> FALSE] >>

\* result["citations"]; the knowledge-only client returns none
\* a citation's url is its host (urlparse(url).netloc), a sequence of characters
WwwOn24 == <<"w","w","w",".","o","n","2","4",".","c","o","m">>
ResultCitations(p) ==
    CASE p[2] = "grok_web_search" -> << [url |-> WwwOn24] >>
      [] OTHER -> << >>

----------------------------------------------------------------------------
(* database.py *)

\* str.lstrip(chars): drop leading characters that are in chars
RECURSIVE lstrip(_, _)
lstrip(s, chars) ==
    IF s # <<>> /\ Head(s) \in chars THEN lstrip(Tail(s), chars) ELSE s

\* needle in hay
Contains(hay, needle) ==
    \E i \in 1..(Len(hay) - Len(needle) + 1) :
        SubSeq(hay, i, i + Len(needle) - 1) = needle

On24Com == <<"o","n","2","4",".","c","o","m">>
EventOn24Com == <<"e","v","e","n","t",".">> \o On24Com
GoldcastIo == <<"g","o","l","d","c","a","s","t",".","i","o">>
ZoomUs == <<"z","o","o","m",".","u","s">>

\* str.lower() on the letters that occur in the hosts and brand strings
LowerOf(ch) ==
    CASE ch = "W" -> "w" [] ch = "O" -> "o" [] ch = "N" -> "n"
      [] ch = "G" -> "g" [] ch = "Z" -> "z" [] ch = "C" -> "c"
      [] ch = "E" -> "e" [] OTHER -> ch

lower(s) == [i \in 1..Len(s) |-> LowerOf(s[i])]

\* is_on24_www set for every on24 host, not in the else branch
WwwFlagAlways(is_on24, is_event) == IF is_on24 THEN 1 ELSE 0

\* is_on24_www: the else branch of the event test (lines 175-178)
WwwFlag(is_on24, is_event) == IF is_on24 /\ ~is_event THEN 1 ELSE 0

\* the argument is urlparse(url).netloc
classify_citation_domain(host) ==
    LET domain == lstrip(lower(host), {"w", "."})
        full_domain == lower(host)
    IN  [url_domain |-> full_domain,
         brand_association |->
             IF Contains(domain, On24Com) THEN "on24"
             ELSE IF Contains(domain, GoldcastIo) THEN "goldcast"
             ELSE IF Contains(domain, ZoomUs) THEN "zoom"
             ELSE "other",
         is_on24_www |->
             WwwFlag(Contains(domain, On24Com), Contains(full_domain, EventOn24Com)),
         is_on24_event |->
             IF Contains(domain, On24Com) /\ Contains(full_domain, EventOn24Com)
             THEN 1 ELSE 0]

\* lastrowid of an insert into responses: a fresh key, here the attempt
\* (invocation number), the pair and the kind of row of the inserting work item
RowId(att, p, kind) == <<att, p[1], p[2], kind>>

store_response(rows, att, p) ==
    rows \cup {[id |-> RowId(att, p, "response"), query_id |-> p[1],
                llm_engine |-> p[2], model_name |-> "model",
                raw_response |-> "text"]}

\* log_error storing the placeholder under a model name other than 'error'
log_error_as_model(rows, att, p) ==
    rows \cup {[id |-> RowId(att, p, "error"), query_id |-> p[1],
                llm_engine |-> p[2], model_name |-> "model",
                raw_response |-> ""]}

log_error(rows, att, p) ==
    rows \cup {[id |-> RowId(att, p, "error"), query_id |-> p[1],
                llm_engine |-> p[2], model_name |-> "error",
                raw_response |-> ""]}

store_mention(rows, resp_id, k, m) ==
    rows \cup {[response_id |-> resp_id, k |-> k, brand |-> m.brand,
                mention_position |-> m.position, sentiment |-> m.sentiment,
                sentiment_score |-> m.sentiment_score,
                is_primary_recommendation |-> m.is_primary_recommendation]}

store_citation(rows, resp_id, k, c) ==
    LET cl == classify_citation_domain(c.url)
    IN  rows \cup {[response_id |-> resp_id, k |-> k, url |-> c.url,
                    brand_association |-> cl.brand_association,
                    is_on24_www |-> cl.is_on24_www,
                    is_on24_event |-> cl.is_on24_event]}

get_responses_for_run(rows) == {r \in rows : r.model_name # "error"}

get_mentions_for_response(rows, resp_id) == {m \in rows : m.response_id = resp_id}

get_citations_for_response(rows, resp_id) == {c \in rows : c.response_id = resp_id}

\* complete_run writing the status of fail_run
complete_run_failed(s) == "failed"

complete_run(s) == "completed"

fail_run(s) == "failed"

----------------------------------------------------------------------------
(* engine.py: _get_completed_pairs *)

\* _get_completed_pairs with the filter inverted (model_name = 'error')
get_completed_pairs_errors(rows) ==
    {<<r.query_id, r.llm_engine>> : r \in {x \in rows : x.model_name = "error"}}

\* _get_completed_pairs without the filter on model_name
get_completed_pairs_any(rows) ==
    {<<r.query_id, r.llm_engine>> : r \in rows}

get_completed_pairs(rows) ==
    {<<r.query_id, r.llm_engine>> : r \in {x \in rows : x.model_name # "error"}}

----------------------------------------------------------------------------
(* metrics.py *)

RECURSIVE SumScores(_)
SumScores(S) ==
    IF S = {} THEN 0
    ELSE LET m == CHOOSE x \in S : TRUE
         IN  m.sentiment_score + SumScores(S \ {m})

\* min(m["mention_position"] for m in brand_mentions) raises TypeError when it
\* has to compare None with another position
MinRaises(S) == Cardinality(S) >= 2 /\ \E m \in S : m.mention_position = NULL

\* max(...) in the place of min(...)
MaxPosition(S) ==
    IF \E m \in S : m.mention_position = NULL THEN NULL
    ELSE Some(CHOOSE n \in {m.mention_position[1] : m \in S} :
                  \A m \in S : n >= m.mention_position[1])

\* min(...) of one or more positions when it does not raise
MinPosition(S) ==
    IF \E m \in S : m.mention_position = NULL THEN NULL
    ELSE Some(CHOOSE n \in {m.mention_position[1] : m \in S} :
                  \A m \in S : n <= m.mention_position[1])

\* the orders in which set(sentiments) can be iterated (string hashing differs
\* from process to process)
SentimentOrders ==
    {o \in [1..3 -> SentimentLabels] : \A i, j \in 1..3 : i # j => o[i] # o[j]}

\* max(set(sentiments), key=sentiments.count): the first label, in the set's
\* iteration order, of maximal count
Dominant(S, order) ==
    LET count(l) == Cardinality({m \in S : m.sentiment = l})
        present == {i \in 1..3 : count(order[i]) > 0}
        best == CHOOSE i \in present :
                    \A j \in present :
                        \/ count(order[i]) > count(order[j])
                        \/ count(order[i]) = count(order[j]) /\ i <= j
    IN  order[best]

\* the row compute_daily_metrics stores for response resp and brand b;
\* avg_sentiment_score is kept as <<sum of scores, number of scores>>
MetricRow(resp, b, ments, cits, order) ==
    LET brand_mentions == {m \in get_mentions_for_response(ments, resp.id) : m.brand = b}
        brand_citations ==
            {c \in get_citations_for_response(cits, resp.id) : c.brand_association = b}
    IN  [query_id |-> resp.query_id, llm_engine |-> resp.llm_engine, brand |-> b,
         is_mentioned |-> IF brand_mentions # {} THEN 1 ELSE 0,
         mention_count |-> Cardinality(brand_mentions),
         first_mention_position |->
             IF brand_mentions # {} THEN MinPosition(brand_mentions) ELSE NULL,
         is_primary_recommendation |->
             IF \E m \in brand_mentions : m.is_primary_recommendation THEN 1 ELSE 0,
         avg_sentiment_score |->
             IF brand_mentions # {}
             THEN <<SumScores(brand_mentions), Cardinality(brand_mentions)>>
             ELSE NULL,
         dominant_sentiment |->
             IF brand_mentions # {} THEN Some(Dominant(brand_mentions, order)) ELSE NULL,
         citation_count |-> Cardinality(brand_citations),
         www_citation_count |->
             IF b = "on24"
             THEN Cardinality({c \in brand_citations : c.is_on24_www = 1}) ELSE 0,
         event_citation_count |->
             IF b = "on24"
             THEN Cardinality({c \in brand_citations : c.is_on24_event = 1}) ELSE 0,
         is_winner |-> 0]

SameKey(a, b) ==
    a.query_id = b.query_id /\ a.llm_engine = b.llm_engine /\ a.brand = b.brand

\* store_daily_metric as an upsert that adds the new counts to the prior row's
store_daily_metric_accumulate(rows, new) ==
    LET prior == {r \in rows : SameKey(r, new)}
        sum(f) == IF prior = {} THEN 0 ELSE (CHOOSE r \in prior : TRUE)[f]
    IN  (rows \ prior)
        \cup {[new EXCEPT !.mention_count = @ + sum("mention_count"),
                          !.citation_count = @ + sum("citation_count")]}

\* store_daily_metric as a plain INSERT: the prior row of the key stays
store_daily_metric_insert(rows, new) == rows \cup {new}

\* store_daily_metric: INSERT OR REPLACE on the table's unique key
store_daily_metric(rows, new) == {r \in rows : ~SameKey(r, new)} \cup {new}

\* the stores of compute_daily_metrics, one after the other
RECURSIVE StoreEach(_, _)
StoreEach(rows, fresh) ==
    IF fresh = {} THEN rows
    ELSE LET new == CHOOSE x \in fresh : TRUE
         IN  StoreEach(store_daily_metric(rows, new), fresh \ {new})

\* the responses compute_daily_metrics takes rows from: of two successful
\* responses of the same pair the later attempt is visited, and stored, last
LastResponses(resps) ==
    {r \in get_responses_for_run(resps) :
        \A x \in get_responses_for_run(resps) :
            (x.query_id = r.query_id /\ x.llm_engine = r.llm_engine)
            => x.id[1] <= r.id[1]}

\* the brands (indices of TRACKED_BRANDS) of response r at which min() raises
RaisesAt(r, ments) ==
    {i \in 1..Len(TRACKED_BRANDS) :
        MinRaises({m \in get_mentions_for_response(ments, r.id) :
                      m.brand = TRACKED_BRANDS[i]})}

\* compute_daily_metrics raises before it has stored every row
MetricsRaise(resps, ments) ==
    \E r \in get_responses_for_run(resps) : RaisesAt(r, ments) # {}

\* the rows of response r stored before the loop over TRACKED_BRANDS raises,
\* all of its rows if it does not
RowsOf(r, ments, cits, order) ==
    {MetricRow(r, TRACKED_BRANDS[i], ments, cits, order) :
        i \in {j \in 1..Len(TRACKED_BRANDS) :
                 \A k \in RaisesAt(r, ments) : j < k}}

\* compute_daily_metrics that stores a row only for the brands a response
\* mentions
StoreMetricsMentioned(rows, resps, ments, cits, order) ==
    StoreEach(rows, {n \in UNION {RowsOf(r, ments, cits, order) :
                                     r \in LastResponses(resps)} :
                        n.is_mentioned = 1})

\* the body of compute_daily_metrics before _compute_winners: one
\* store_daily_metric per response and tracked brand, up to the brand at
\* which min() raises
StoreMetrics(rows, resps, ments, cits, order) ==
    StoreEach(rows, UNION {RowsOf(r, ments, cits, order) :
                              r \in LastResponses(resps)})

\* fractions <<numerator, denominator>>, denominator # 0
Greater(a, b) ==
    LET na == IF a[2] < 0 THEN <<-a[1], -a[2]>> ELSE a
        nb == IF b[2] < 0 THEN <<-b[1], -b[2]>> ELSE b
    IN  na[1] * nb[2] > nb[1] * na[2]

\* the score with a bonus of 10, not 100, for the primary recommendation
ScoreSmallBonus(m) ==
    LET prim == IF m.is_primary_recommendation = 1 THEN 10 ELSE 0
        hasPos == m.first_mention_position # NULL /\ m.first_mention_position[1] # 0
        pos == IF hasPos THEN m.first_mention_position[1] ELSE 1
        ten == IF hasPos THEN 10 ELSE 0
        hasAvg == m.avg_sentiment_score # NULL
        sum == IF hasAvg THEN m.avg_sentiment_score[1] ELSE 0
        cnt == IF hasAvg THEN m.avg_sentiment_score[2] ELSE 1
    IN  <<prim * pos * 10 * cnt + ten * 10 * cnt + 5 * sum * pos, pos * 10 * cnt>>

\* the score of a mentioned row: 100 if primary, 10 / position if the position
\* is truthy, 5 * average sentiment if it is not None
Score(m) ==
    LET prim == IF m.is_primary_recommendation = 1 THEN 100 ELSE 0
        hasPos == m.first_mention_position # NULL /\ m.first_mention_position[1] # 0
        pos == IF hasPos THEN m.first_mention_position[1] ELSE 1
        ten == IF hasPos THEN 10 ELSE 0
        hasAvg == m.avg_sentiment_score # NULL
        sum == IF hasAvg THEN m.avg_sentiment_score[1] ELSE 0
        cnt == IF hasAvg THEN m.avg_sentiment_score[2] ELSE 1
    IN  <<prim * pos * 10 * cnt + ten * 10 * cnt + 5 * sum * pos, pos * 10 * cnt>>

\* the orders in which get_daily_metrics_for_run (a SELECT without ORDER BY)
\* can return the rows of a group: as inserted, or as the unique key's index
\* sorts them; the order belongs to the database, not to the call
RowOrders == {TRACKED_BRANDS, <<"goldcast", "on24", "zoom">>}

\* the loop of _compute_winners with  if score >= best_score
RECURSIVE BestOfLast(_, _, _, _, _)
BestOfLast(group, scan, i, best, best_score) ==
    IF i > Len(scan) THEN best
    ELSE LET ms == {m \in group : m.brand = scan[i]}
         IN  IF ms = {} THEN BestOfLast(group, scan, i + 1, best, best_score)
             ELSE LET m == CHOOSE x \in ms : TRUE
                  IN  IF m.is_mentioned = 0
                      THEN BestOfLast(group, scan, i + 1, best, best_score)
                      ELSE IF ~Greater(best_score, Score(m))
                           THEN BestOfLast(group, scan, i + 1, Some(m.brand), Score(m))
                           ELSE BestOfLast(group, scan, i + 1, best, best_score)

\* the loop of _compute_winners over one group, whose rows come in the order
\* scan of their brands; returns the brand of best, or NULL
RECURSIVE BestOf(_, _, _, _, _)
BestOf(group, scan, i, best, best_score) ==
    IF i > Len(scan) THEN best
    ELSE LET ms == {m \in group : m.brand = scan[i]}
         IN  IF ms = {} THEN BestOf(group, scan, i + 1, best, best_score)
             ELSE LET m == CHOOSE x \in ms : TRUE
                  IN  IF m.is_mentioned = 0
                      THEN BestOf(group, scan, i + 1, best, best_score)
                      ELSE IF Greater(Score(m), best_score)
                           THEN BestOf(group, scan, i + 1, Some(m.brand), Score(m))
                           ELSE BestOf(group, scan, i + 1, best, best_score)

\* _compute_winners with set_winner called inside the loop, at every row that
\* raises best_score
compute_winners_each_best(rows, scan) ==
    LET group(r) == {m \in rows : m.query_id = r.query_id /\ m.llm_engine = r.llm_engine}
        index(b) == CHOOSE i \in 1..Len(scan) : scan[i] = b
        raises(r) ==
            /\ r.is_mentioned = 1
            /\ \A m \in group(r) :
                   (m.is_mentioned = 1 /\ index(m.brand) < index(r.brand))
                   => Greater(Score(r), Score(m))
    IN  {IF raises(r) THEN [r EXCEPT !.is_winner = 1] ELSE r : r \in rows}

compute_winners(rows, scan) ==
    LET group(r) == {m \in rows : m.query_id = r.query_id /\ m.llm_engine = r.llm_engine}
        best(r) == BestOf(group(r), scan, 1, NULL, <<-999, 1>>)
    IN  {IF best(r) = Some(r.brand) THEN [r EXCEPT !.is_winner = 1] ELSE r : r \in rows}

----------------------------------------------------------------------------
(* parser.py and brands.py.  Strings that the code takes apart are sequences *)
(* of characters; a Python value is a record with its type t and value v.    *)

PyNone == [t |-> "None"]
Str(x) == [t |-> "str", v |-> x]
Num(n) == [t |-> "num", v |-> n]
Bool(b) == [t |-> "bool", v |-> b]
List(q) == [t |-> "list", v |-> q]
Dict(f) == [t |-> "dict", v |-> f]
EmptyDict == Dict([k \in {} |-> PyNone])

\* bool(x)
Truthy(x) ==
    CASE x.t = "None" -> FALSE
      [] x.t = "str" -> Len(x.v) > 0
      [] x.t = "num" -> x.v # 0
      [] x.t = "bool" -> x.v
      [] x.t = "list" -> Len(x.v) > 0
      [] x.t = "dict" -> DOMAIN x.v # {}

\* a or b
Or(a, b) == IF Truthy(a) THEN a ELSE b

\* d.get(k, dflt) of a dict d
get(d, k, dflt) == IF k \in DOMAIN d.v THEN d.v[k] ELSE dflt

\* str.strip()
RECURSIVE rstrip(_)
rstrip(x) ==
    IF x # <<>> /\ x[Len(x)] = " " THEN rstrip(SubSeq(x, 1, Len(x) - 1)) ELSE x
strip(x) == rstrip(lstrip(x, {" "}))

On24 == <<"o","n","2","4">>
Goldcast == <<"g","o","l","d","c","a","s","t">>
Zoom == <<"z","o","o","m">>
Other == <<"o","t","h","e","r">>
VALID_BRANDS == {On24, Goldcast, Zoom, Other}

\* config/brands.py, in the order of the dictionary
BRAND_DEFINITIONS ==
    << [key |-> On24, display_name |-> <<"O","N","2","4">>,
        aliases |-> {<<"o","n","2","4">>, <<"o","n"," ","2","4">>, <<"o","n","2","4",".","c","o","m">>}],
       [key |-> Goldcast, display_name |-> <<"G","o","l","d","c","a","s","t">>,
        aliases |-> {<<"g","o","l","d","c","a","s","t">>, <<"g","o","l","d","c","a","s","t",".","i","o">>, <<"g","o","l","d"," ","c","a","s","t">>}],
       [key |-> Zoom, display_name |-> <<"Z","o","o","m"," ","(","W","e","b","i","n","a","r","s","/","E","v","e","n","t","s",")">>,
        aliases |-> {<<"z","o","o","m"," ","w","e","b","i","n","a","r">>, <<"z","o","o","m"," ","w","e","b","i","n","a","r","s">>, <<"z","o","o","m"," ","e","v","e","n","t","s">>}] >>

\* brand_str is the key or an alias of the definition, or holds its display
\* name (lines 96-99)
BrandMatches(defn, brand_str) ==
    \/ brand_str = defn.key
    \/ brand_str \in {lower(a) : a \in defn.aliases}
    \/ Contains(brand_str, lower(defn.display_name))

\* _resolve_brand that leaves an unknown brand as it is
resolve_brand_unknown_kept(brand_str) ==
    LET x == strip(lower(brand_str))
        hits == {i \in 1..Len(BRAND_DEFINITIONS) : BrandMatches(BRAND_DEFINITIONS[i], x)}
    IN  IF hits = {} THEN x
        ELSE BRAND_DEFINITIONS[CHOOSE i \in hits : \A j \in hits : i <= j].key

\* _resolve_brand: the first definition that matches, else "other"
resolve_brand(brand_str) ==
    LET x == strip(lower(brand_str))
        hits == {i \in 1..Len(BRAND_DEFINITIONS) : BrandMatches(BRAND_DEFINITIONS[i], x)}
    IN  IF hits = {} THEN Other
        ELSE BRAND_DEFINITIONS[CHOOSE i \in hits : \A j \in hits : i <= j].key

\* the brand of a mention as _normalize reads it (line 71), before .lower()
RawBrand(m) ==
    Or(Or(get(m, "brand", PyNone), get(m, "brand_id", PyNone)), Str(Other))

\* the body of the loop of _normalize raises for item m: m has no .get, the
\* brand has no .lower, or float() rejects the sentiment score
MentionRaises(m) ==
    \/ m.t # "dict"
    \/ RawBrand(m).t # "str"
    \/ get(m, "sentiment_score", Num(0)).t # "num"

\* the dictionary _normalize appends for item m (lines 71-83); the context is
\* left out
NormalizedMention(m) ==
    LET brand == strip(lower(RawBrand(m).v))
    IN  [brand |-> IF brand \in VALID_BRANDS THEN brand ELSE resolve_brand(brand),
         position |-> Or(get(m, "position", PyNone), get(m, "mention_order", Num(1))),
         sentiment |-> get(m, "sentiment", Str("neutral")),
         sentiment_score |-> get(m, "sentiment_score", Num(0)).v,
         is_primary_recommendation |->
             Truthy(get(m, "is_primary_recommendation", Bool(FALSE)))]

\* mentions_raw (line 68)
MentionsRaw(parsed) ==
    Or(get(parsed, "mentions", PyNone), get(parsed, "brands_mentioned", List(<<>>)))

\* _normalize raises: parsed has no .get, mentions_raw cannot be iterated, or
\* the loop body raises for an item (the items of a string or of a dict are
\* strings)
NormalizeRaises(parsed) ==
    \/ parsed.t # "dict"
    \/ MentionsRaw(parsed).t \in {"None", "num", "bool"}
    \/ MentionsRaw(parsed).t = "str" /\ Len(MentionsRaw(parsed).v) > 0
    \/ MentionsRaw(parsed).t = "dict" /\ DOMAIN MentionsRaw(parsed).v # {}
    \/ /\ MentionsRaw(parsed).t = "list"
       /\ \E i \in 1..Len(MentionsRaw(parsed).v) : MentionRaises(MentionsRaw(parsed).v[i])

\* _normalize (lines 67-90)
normalize(parsed) ==
    [mentions |->
         IF MentionsRaw(parsed).t = "list"
         THEN [i \in 1..Len(MentionsRaw(parsed).v) |->
                   NormalizedMention(MentionsRaw(parsed).v[i])]
         ELSE <<>>,
     brands_not_mentioned |-> get(parsed, "brands_not_mentioned", List(<<>>)),
     overall_winner |-> get(parsed, "overall_winner", Str("none")),
     zoom_context_is_webinar |-> get(parsed, "zoom_context_is_webinar", Bool(TRUE)),
     parse_error |-> FALSE]

\* the result of the except branch (lines 59-65); parse_error: the key is there
Degraded ==
    [mentions |-> <<>>,
     brands_not_mentioned |-> List(<<Str(On24), Str(Goldcast), Str(Zoom)>>),
     overall_winner |-> Str("none"),
     zoom_context_is_webinar |-> Bool(TRUE),
     parse_error |-> TRUE]

(* The text of the secondary call's answer is a sequence of tokens: white    *)
(* space, the fence ```, the word json, other prose, or a JSON document.     *)

Ws == [k |-> "ws"]
Fence == [k |-> "fence"]
Json == [k |-> "json"]
Prose == [k |-> "prose"]
Doc(d) == [k |-> "doc", d |-> d]

\* sep in text
RECURSIVE Find(_, _, _)
Find(text, sep, i) ==
    IF i + Len(sep) - 1 > Len(text) THEN 0
    ELSE IF \A j \in 1..Len(sep) : text[i + j - 1].k = sep[j].k THEN i
    ELSE Find(text, sep, i + 1)

\* text.split(sep)[0] and what follows the first sep in text
BeforeFirst(text, sep) ==
    IF Find(text, sep, 1) = 0 THEN text ELSE SubSeq(text, 1, Find(text, sep, 1) - 1)
AfterFirst(text, sep) ==
    SubSeq(text, Find(text, sep, 1) + Len(sep), Len(text))

\* text.strip() of a token sequence
RECURSIVE StripWs(_)
StripWs(text) ==
    IF text # <<>> /\ text[1].k = "ws" THEN StripWs(Tail(text))
    ELSE IF text # <<>> /\ text[Len(text)].k = "ws"
         THEN StripWs(SubSeq(text, 1, Len(text) - 1))
         ELSE text

\* lines 49-53: the text between the fences, if there are fences
Unfenced(text) ==
    LET x == StripWs(text)
    IN  IF Find(x, <<Fence, Json>>, 1) > 0
        THEN BeforeFirst(BeforeFirst(AfterFirst(x, <<Fence, Json>>), <<Fence, Json>>),
                         <<Fence>>)
        ELSE IF Find(x, <<Fence>>, 1) > 0
             THEN BeforeFirst(AfterFirst(x, <<Fence>>), <<Fence>>)
             ELSE x

\* json.loads accepts one document with white space around it
JsonValid(text) ==
    Len(StripWs(text)) = 1 /\ StripWs(text)[1].k = "doc"
JsonLoads(text) == StripWs(text)[1].d

\* parse_response (lines 41-65): input.call tells whether messages.create
\* returned, input.content is the list of content blocks, each a text
parse_response(input) ==
    IF input.call # "ok" THEN Degraded
    ELSE IF input.content = <<>> THEN Degraded
    ELSE IF ~JsonValid(Unfenced(input.content[1])) THEN Degraded
    ELSE IF NormalizeRaises(JsonLoads(Unfenced(input.content[1]))) THEN Degraded
    ELSE normalize(JsonLoads(Unfenced(input.content[1])))

----------------------------------------------------------------------------
(* engine.py: BenchmarkEngine.run and _run_single *)

InFlight == {"calling", "storing"}

\* the work items built without looking at the completed pairs
WorkItemsAll(completed) == AllPairs

\* work_items: all (query, engine) pairs not yet completed (lines 129-133)
WorkItems(completed) == AllPairs \ completed

\* benchmark_runs.total_queries, set by create_run (line 122)
total_queries == Cardinality(active_queries)

\* total_steps (line 135)
total_steps == Cardinality(active_queries) * Len(ENGINES)

\* a done_count that starts at zero on every invocation
DoneAtStartZero(completed) == 0

\* done_count before the pool starts (line 136)
DoneAtStart(completed) == Cardinality(completed)

\* a future counted as done as soon as a pool thread has taken it
FutureDoneOnStart(it) == it.st \notin {"none", "queued"}

\* Future.done(): _run_single has returned or raised
FutureDone(it) == it.st \in {"ok", "error", "unlogged", "raised"}

NoItem == [st |-> "none", m |-> 0, c |-> 0, degraded |-> FALSE, unplaced |-> FALSE]
Submitted == {p \in AllPairs : item[p].st # "none"}

\* the with-block of the executor is left only when every future is done
AllSettled == \A p \in Submitted : FutureDone(item[p])

\* a pool that starts a thread for every submitted work item
WorkerAlwaysFree == TRUE

\* a pool thread is free to take the next queued work item
WorkerFree == Cardinality({p \in AllPairs : item[p].st \in InFlight}) < max_workers

\* parsed.get("mentions", []) of work item it (line 82): parse_response has
\* returned the normalized mentions, or its degraded result
ParsedFor(it, p) ==
    IF it.degraded THEN Degraded.mentions
    ELSE IF it.unplaced THEN UnplacedMentions
    ELSE ParsedMentions(p)

\* the state of a work item that has stored its response, m mentions and c
\* citations: it returns {"status": "ok"} once both loops are through
Progress(it, p, m, c) ==
    IF m = Len(ParsedFor(it, p)) /\ c = Len(ResultCitations(p))
    THEN [it EXCEPT !.st = "ok", !.m = m, !.c = c]
    ELSE [it EXCEPT !.st = "storing", !.m = m, !.c = c]

\* the except branch without the inner try: log_error's exception leaves
\* _run_single
ExceptOutcomeRaising(logged) == IF logged THEN "error" ELSE "raised"

\* how _run_single ends after an exception: it returns {"status": "error: ..."}
\* whether log_error stored the placeholder ("error") or raised and was
\* swallowed ("unlogged"); "raised" would be an exception leaving _run_single
ExceptOutcome(logged) == IF logged THEN "error" ELSE "unlogged"

\* the except branch of _run_single (lines 101-108)
Except(p, logged) ==
    /\ item' = [item EXCEPT ![p].st = ExceptOutcome(logged)]
    /\ responses' = IF logged THEN log_error(responses, inv, p) ELSE responses
    /\ UNCHANGED <<mentions, citations>>

\* the pool threads of the work items whose waits are followed, and the
\* providers of these work items
GateThreads == {1, 2}
GateEngines == {"grok_web_search", "chatgpt_web_search"}

\* a pool thread between two work items
Resting == [st |-> "resting", engine_name |-> "", wake |-> 0, attempt_number |-> 0]

\* a queries table with two active queries, and the pairs of its runs
CounterQueries == {1, 2}
CounterPairs == CounterQueries \X EngineSet

\* two invocations of engine.run on the same run id
Invocations == {1, 2}

\* a thread that is not inside _RateLimiter.wait
Outside == [st |-> "outside", engine_name |-> "", wake |-> 0]

Init ==
    /\ status = "none"
    /\ completed_queries = 0
    /\ responses = {}
    /\ mentions = {}
    /\ citations = {}
    /\ daily_metrics = {}
    /\ inv = 0
    /\ pc = "idle"
    /\ item = [p \in AllPairs |-> NoItem]
    /\ consumed = {}
    /\ done_count = 0
    /\ reported = <<>>
    /\ called = {}
    /\ metrics0 = {}
    /\ exit0 = "none"
    /\ last_exit = "none"
    /\ stuck_runs = FALSE
    /\ clock = ENGINE_DELAYS["grok_web_search"]
    /\ lock = [e \in EngineSet |-> 0]
    /\ last_call = [e \in EngineSet |-> 0]
    /\ caller = [t \in Callers |-> Outside]
    /\ returned_at = [e \in EngineSet |-> <<>>]
    /\ client = "grok_web_search"
    /\ cpc = "idle"
    /\ attempt_number = 0
    /\ waited = [e \in EngineSet |-> FALSE]
    /\ requests = <<>>
    /\ result = "none"
    /\ netloc = <<>>
    /\ classification = classify_citation_domain(<<>>)
    /\ parse_input = [call |-> "raises", content |-> <<>>]
    /\ parse_result = Degraded
    /\ metric_mentions = {}
    /\ metric_rows = {}
    /\ metric_prev = {}
    /\ metric_orders = <<>>
    /\ metric_scan = TRACKED_BRANDS
    /\ mpc = "empty"
    /\ query_library = <<>>
    /\ queries = {}
    /\ queries_once = {}
    /\ seeds = -1
    /\ credentials = EngineSet
    /\ constructed = "ok"
    /\ work = [t \in GateThreads |-> Resting]
    /\ client_last_call = [e \in EngineSet |-> 0]
    /\ counter_responses = {}
    /\ counter_item = [p \in CounterPairs |-> "none"]
    /\ counter_pc = "idle"
    /\ counter_done = 0
    /\ counter_completed = 0
    /\ counter_runs = 0
    /\ overlap_responses = {}
    /\ overlap_item = [i \in Invocations |-> [p \in AllPairs |-> "none"]]
    /\ overlap_pc = [i \in Invocations |-> "idle"]

\* the invocation ends with an exception: nothing else is written
Raised ==
    /\ pc' = "idle"
    /\ last_exit' = "raised"

\* engine.run up to the submission of the work items (lines 116-151), with a
\* progress_callback that raises or returns.
\* With no run record the call is engine.run(), else engine.run(run_id=...).
RunWith(raises) ==
    /\ constructed = "ok"
    /\ pc = "idle"
    /\ inv < MaxInvocations
    /\ inv' = inv + 1
    /\ LET completed == get_completed_pairs(responses)
           work_items == WorkItems(completed)
       IN  /\ done_count' = DoneAtStart(completed)
           /\ status' = IF status = "none" THEN "running" ELSE status
           /\ called' = {}
           /\ consumed' = {}
           \* progress_callback(done_count, total_steps, ...) (lines 144-145)
           /\ reported' = IF work_items = {} THEN <<>> ELSE <<done_count'>>
           /\ IF work_items = {}
              THEN /\ pc' = "metrics"
                   /\ item' = [p \in AllPairs |-> NoItem]
                   /\ metrics0' = daily_metrics
                   /\ exit0' = last_exit
                   /\ UNCHANGED last_exit
              ELSE /\ metrics0' = {}
                   /\ exit0' = "none"
                   /\ IF ~raises
                      THEN /\ pc' = "pool"
                           /\ item' = [p \in AllPairs |->
                                         IF p \in work_items
                                         THEN [NoItem EXCEPT !.st = "queued"]
                                         ELSE NoItem]
                           /\ UNCHANGED last_exit
                      ELSE /\ Raised             \* progress_callback raised
                           /\ item' = [p \in AllPairs |-> NoItem]
    /\ UNCHANGED <<completed_queries, responses, mentions, citations,
                   daily_metrics, stuck_runs>>
    /\ UNCHANGED <<limiter_vars, client_vars, pure_vars>>

Run == \E raises \in BOOLEAN : RunWith(raises)

\* a pool thread takes a queued work item and passes the rate limiter (line 69)
WorkerStart(p) ==
    /\ pc \in {"pool", "drain"}
    /\ item[p].st = "queued"
    /\ WorkerFree
    /\ item' = [item EXCEPT ![p].st = "calling"]
    /\ UNCHANGED <<reported, status, completed_queries, responses, mentions, citations,
                   daily_metrics, inv, pc, consumed, done_count, called,
                   metrics0, exit0, last_exit, stuck_runs>>
    /\ UNCHANGED <<limiter_vars, client_vars, pure_vars>>

\* client.query returns and store_response stores its answer (lines 70-79);
\* a provider answers only a request that carries its API key
ClientQuery(p) ==
    /\ pc \in {"pool", "drain"}
    /\ item[p].st = "calling"
    /\ p[2] \in credentials
    /\ called' = called \cup {p}
    /\ responses' = store_response(responses, inv, p)
    /\ item' = [item EXCEPT ![p] = Progress(item[p], p, 0, 0)]
    /\ UNCHANGED <<reported, status, completed_queries, mentions, citations, daily_metrics,
                   inv, pc, consumed, done_count, metrics0, exit0, last_exit,
                   stuck_runs>>
    /\ UNCHANGED <<limiter_vars, client_vars, pure_vars>>

\* the same when the normalizer fails: the secondary call raises or answers
\* something that is not the JSON asked for, and parse_response returns its
\* degraded result (line 81)
ClientQueryDegraded(p) ==
    /\ pc \in {"pool", "drain"}
    /\ item[p].st = "calling"
    /\ p[2] \in credentials
    /\ called' = called \cup {p}
    /\ responses' = store_response(responses, inv, p)
    /\ item' = [item EXCEPT
                  ![p] = Progress([item[p] EXCEPT !.degraded = TRUE], p, 0, 0)]
    /\ UNCHANGED <<reported, status, completed_queries, mentions, citations, daily_metrics,
                   inv, pc, consumed, done_count, metrics0, exit0, last_exit,
                   stuck_runs>>
    /\ UNCHANGED <<limiter_vars, client_vars, pure_vars>>

\* the same when the normalizer returns mentions without a position
ClientQueryUnplaced(p) ==
    /\ pc \in {"pool", "drain"}
    /\ item[p].st = "calling"
    /\ p[2] \in credentials
    /\ called' = called \cup {p}
    /\ responses' = store_response(responses, inv, p)
    /\ item' = [item EXCEPT
                  ![p] = Progress([item[p] EXCEPT !.unplaced = TRUE], p, 0, 0)]
    /\ UNCHANGED <<reported, status, completed_queries, mentions, citations,
                   daily_metrics, inv, pc, consumed, done_count, metrics0, exit0,
                   last_exit, stuck_runs>>
    /\ UNCHANGED <<limiter_vars, client_vars, pure_vars>>

\* client.query raises after its retries; the except branch logs the error
\* (lines 71, 101-108)
ClientRaises(p) ==
    /\ pc \in {"pool", "drain"}
    /\ item[p].st = "calling"
    /\ called' = called \cup {p}
    /\ Except(p, TRUE)
    /\ UNCHANGED <<reported, status, completed_queries, daily_metrics, inv, pc, consumed,
                   done_count, metrics0, exit0, last_exit, stuck_runs>>
    /\ UNCHANGED <<limiter_vars, client_vars, pure_vars>>

\* one round of the mentions loop (lines 82-90)
StoreMention(p) ==
    /\ pc \in {"pool", "drain"}
    /\ item[p].st = "storing"
    /\ item[p].m < Len(ParsedFor(item[p], p))
    /\ mentions' = store_mention(mentions, RowId(inv, p, "response"),
                                 item[p].m + 1,
                                 ParsedFor(item[p], p)[item[p].m + 1])
    /\ item' = [item EXCEPT ![p] = Progress(item[p], p, item[p].m + 1, item[p].c)]
    /\ UNCHANGED <<reported, status, completed_queries, responses, citations, daily_metrics,
                   inv, pc, consumed, done_count, called, metrics0, exit0,
                   last_exit, stuck_runs>>
    /\ UNCHANGED <<limiter_vars, client_vars, pure_vars>>

\* one round of the citations loop (lines 91-97)
StoreCitation(p) ==
    /\ pc \in {"pool", "drain"}
    /\ item[p].st = "storing"
    /\ item[p].m = Len(ParsedFor(item[p], p))
    /\ item[p].c < Len(ResultCitations(p))
    /\ citations' =
           IF ResultCitations(p)[item[p].c + 1].url # <<>>
           THEN store_citation(citations, RowId(inv, p, "response"),
                               item[p].c + 1, ResultCitations(p)[item[p].c + 1])
           ELSE citations
    /\ item' = [item EXCEPT ![p] = Progress(item[p], p, item[p].m, item[p].c + 1)]
    /\ UNCHANGED <<reported, status, completed_queries, responses, mentions, daily_metrics,
                   inv, pc, consumed, done_count, called, metrics0, exit0,
                   last_exit, stuck_runs>>
    /\ UNCHANGED <<limiter_vars, client_vars, pure_vars>>

\* one round of the as_completed loop (lines 153-168); future.result()
\* re-raises what _run_single raised, progress_callback raises or returns
ConsumeWith(p, raises) ==
    /\ pc = "pool"
    /\ FutureDone(item[p])
    /\ p \notin consumed
    /\ consumed' = consumed \cup {p}
    /\ done_count' = done_count + 1
    \* future.result() raises before the callback is reached (line 155)
    /\ reported' = IF item[p].st = "raised" THEN reported
                   ELSE Append(reported, done_count')
    /\ IF ~raises
       THEN /\ item[p].st # "raised"
            /\ completed_queries' =
                   IF done_count' % 3 = 0 THEN done_count' \div Len(ENGINES)
                   ELSE completed_queries
            /\ pc' = IF consumed' = Submitted THEN "progress" ELSE "pool"
       ELSE /\ pc' = "drain"               \* progress_callback or result() raised
            /\ UNCHANGED completed_queries
    /\ UNCHANGED <<status, responses, mentions, citations, daily_metrics, inv,
                   item, called, metrics0, exit0, last_exit, stuck_runs>>
    /\ UNCHANGED <<limiter_vars, client_vars, pure_vars>>

Consume(p) == \E raises \in BOOLEAN : ConsumeWith(p, raises)

\* an exception leaves the with-block: executor.shutdown(wait=True) first lets
\* every submitted work item finish
Drain ==
    /\ pc = "drain"
    /\ AllSettled
    /\ Raised
    /\ UNCHANGED <<reported, status, completed_queries, responses, mentions, citations,
                   daily_metrics, inv, item, consumed, done_count, called,
                   metrics0, exit0, stuck_runs>>
    /\ UNCHANGED <<limiter_vars, client_vars, pure_vars>>

\* update_run_progress(run_id, len(active_queries)) (line 170)
FinalProgress ==
    /\ pc = "progress"
    /\ AllSettled
    /\ completed_queries' = Cardinality(active_queries)
    /\ pc' = "metrics"
    /\ UNCHANGED <<reported, status, responses, mentions, citations, daily_metrics, inv,
                   item, consumed, done_count, called, metrics0, exit0,
                   last_exit, stuck_runs>>
    /\ UNCHANGED <<limiter_vars, client_vars, pure_vars>>

\* compute_daily_metrics up to _compute_winners (metrics.py lines 11-59)
ComputeMetrics ==
    /\ pc = "metrics"
    /\ \E order \in SentimentOrders :
          IF MetricsRaise(responses, mentions)
          THEN \* the rows stored before the exception leaves engine.run
               /\ \E done \in SUBSET LastResponses(responses) :
                     daily_metrics' =
                         StoreEach(daily_metrics,
                                   UNION {RowsOf(r, mentions, citations, order) :
                                             r \in done})
               /\ Raised
          ELSE /\ daily_metrics' =
                     StoreMetrics(daily_metrics, responses, mentions, citations,
                                  order)
               /\ pc' = "winners"
               /\ UNCHANGED last_exit
    /\ UNCHANGED <<reported, status, completed_queries, responses, mentions, citations,
                   inv, item, consumed, done_count, called, metrics0, exit0,
                   stuck_runs>>
    /\ UNCHANGED <<limiter_vars, client_vars, pure_vars>>

\* _compute_winners (metrics.py lines 63-90)
ComputeWinners ==
    /\ pc = "winners"
    /\ \E scan \in RowOrders : daily_metrics' = compute_winners(daily_metrics, scan)
    /\ pc' = "complete"
    /\ UNCHANGED <<reported, status, completed_queries, responses, mentions, citations,
                   inv, item, consumed, done_count, called, metrics0, exit0,
                   last_exit, stuck_runs>>
    /\ UNCHANGED <<limiter_vars, client_vars, pure_vars>>

\* complete_run and return (lines 141-142, 172-174)
CompleteRun ==
    /\ pc = "complete"
    /\ status' = complete_run(status)
    /\ pc' = "idle"
    /\ last_exit' = "returned"
    /\ UNCHANGED <<reported, completed_queries, responses, mentions, citations,
                   daily_metrics, inv, item, consumed, done_count, called,
                   metrics0, exit0, stuck_runs>>
    /\ UNCHANGED <<limiter_vars, client_vars, pure_vars>>

\* the process dies while an invocation executes: its threads die with it
Crash ==
    /\ pc # "idle"
    /\ pc' = "idle"
    /\ last_exit' = "crashed"
    /\ item' = [p \in AllPairs |-> NoItem]
    /\ consumed' = {}
    /\ called' = {}
    /\ done_count' = 0
    /\ reported' = <<>>
    /\ UNCHANGED <<status, completed_queries, responses, mentions, citations,
                   daily_metrics, inv, metrics0, exit0, stuck_runs>>
    /\ UNCHANGED <<limiter_vars, client_vars, pure_vars>>

(* storage operations that raise (sqlite3.OperationalError and the like) *)

\* log_error itself raises after client.query raised (lines 103-107)
ClientRaisesUnlogged(p) ==
    /\ pc \in {"pool", "drain"}
    /\ item[p].st = "calling"
    /\ called' = called \cup {p}
    /\ Except(p, FALSE)
    /\ UNCHANGED <<reported, status, completed_queries, daily_metrics, inv, pc, consumed,
                   done_count, metrics0, exit0, last_exit, stuck_runs>>
    /\ UNCHANGED <<limiter_vars, client_vars, pure_vars>>

\* store_response, store_mention or store_citation raises (lines 75-97)
StoreRaises(p) ==
    /\ pc \in {"pool", "drain"}
    /\ item[p].st \in {"calling", "storing"}
    /\ called' = called \cup {p}
    /\ \E logged \in BOOLEAN : Except(p, logged)
    /\ UNCHANGED <<reported, status, completed_queries, daily_metrics, inv, pc, consumed,
                   done_count, metrics0, exit0, last_exit, stuck_runs>>
    /\ UNCHANGED <<limiter_vars, client_vars, pure_vars>>

\* update_run_progress raises inside the as_completed loop (line 168)
ConsumeRaises(p) ==
    /\ pc = "pool"
    /\ FutureDone(item[p])
    /\ item[p].st # "raised"
    /\ p \notin consumed
    /\ consumed' = consumed \cup {p}
    /\ done_count' = done_count + 1
    /\ done_count' % 3 = 0
    /\ reported' = Append(reported, done_count')
    /\ pc' = "drain"
    /\ UNCHANGED <<status, completed_queries, responses, mentions, citations,
                   daily_metrics, inv, item, called, metrics0, exit0, last_exit,
                   stuck_runs>>
    /\ UNCHANGED <<limiter_vars, client_vars, pure_vars>>

\* update_run_progress, compute_daily_metrics or complete_run raises after the
\* pool (lines 140-141, 170-172), before it has written
MainRaises ==
    /\ pc \in {"progress", "metrics", "winners", "complete"}
    /\ Raised
    /\ UNCHANGED <<reported, status, completed_queries, responses, mentions, citations,
                   daily_metrics, inv, item, consumed, done_count, called,
                   metrics0, exit0, stuck_runs>>
    /\ UNCHANGED <<limiter_vars, client_vars, pure_vars>>

(* pages/6_Run_Benchmark.py *)

\* the page is rendered: stuck_runs lists the runs whose status is running
PageLoad ==
    /\ stuck_runs' = (status = "running")
    /\ stuck_runs' # stuck_runs
    /\ UNCHANGED <<reported, status, completed_queries, responses, mentions, citations,
                   daily_metrics, inv, pc, item, consumed, done_count, called,
                   metrics0, exit0, last_exit>>
    /\ UNCHANGED <<limiter_vars, client_vars, pure_vars>>

\* "Mark all stuck runs as failed", then st.rerun() renders the page again
MarkStuckFailed ==
    /\ stuck_runs
    /\ status' = fail_run(status)
    /\ stuck_runs' = (status' = "running")
    /\ UNCHANGED <<reported, completed_queries, responses, mentions, citations,
                   daily_metrics, inv, pc, item, consumed, done_count, called,
                   metrics0, exit0, last_exit>>
    /\ UNCHANGED <<limiter_vars, client_vars, pure_vars>>

Next ==
    \/ Run
    \/ \E p \in AllPairs : WorkerStart(p)
    \/ \E p \in AllPairs : ClientQuery(p)
    \/ \E p \in AllPairs : ClientRaises(p)
    \/ \E p \in AllPairs : StoreMention(p)
    \/ \E p \in AllPairs : StoreCitation(p)
    \/ \E p \in AllPairs : Consume(p)
    \/ Drain
    \/ FinalProgress
    \/ ComputeMetrics
    \/ ComputeWinners
    \/ CompleteRun
    \/ Crash

----------------------------------------------------------------------------
(* engine.py: _RateLimiter.wait.  Statements take no time; time passes while *)
(* a thread sleeps or waits for a lock.                                      *)

\* wait with one lock shared by all engines
GateSharedFree(e) == \A x \in EngineSet : lock[x] = 0

\* wait without the lock, as the clients' own _wait
GateAlwaysFree(e) == TRUE

\* with self._locks[engine_name]: the lock can be taken
GateFree(e) == lock[e] = 0

\* wait() returns to thread t at the current time
Return(t, e) ==
    /\ last_call' = [last_call EXCEPT ![e] = clock]
    /\ lock' = [lock EXCEPT ![e] = 0]
    /\ caller' = [caller EXCEPT ![t] = Outside]
    /\ returned_at' =
           [returned_at EXCEPT ![e] =
               IF Len(@) < 2 THEN Append(@, clock) ELSE <<@[2], clock>>]

\* thread t calls wait(e) and reaches the with statement (line 33)
Call(t, e) ==
    /\ caller[t].st = "outside"
    /\ caller' = [caller EXCEPT ![t] = [st |-> "blocked", engine_name |-> e, wake |-> 0]]
    /\ UNCHANGED <<clock, lock, last_call, returned_at>>
    /\ UNCHANGED <<engine_vars, client_vars, pure_vars>>

\* thread t takes the lock and computes elapsed (lines 33-36); with nothing to
\* sleep it stamps _last_call and returns (line 38)
Enter(t) ==
    /\ caller[t].st = "blocked"
    /\ LET e == caller[t].engine_name
           delay == ENGINE_DELAYS[e]
           elapsed == clock - last_call[e]
       IN  /\ GateFree(e)
           /\ IF elapsed < delay
              THEN /\ lock' = [lock EXCEPT ![e] = t]
                   /\ caller' = [caller EXCEPT ![t] =
                          [st |-> "sleeping", engine_name |-> e,
                           wake |-> clock + (delay - elapsed)]]
                   /\ UNCHANGED <<last_call, returned_at>>
              ELSE Return(t, e)
    /\ UNCHANGED clock
    /\ UNCHANGED <<engine_vars, client_vars, pure_vars>>

\* time.sleep(delay - elapsed) is over (line 37); the thread stamps _last_call,
\* releases the lock and returns (line 38)
Wake(t) ==
    /\ caller[t].st = "sleeping"
    /\ clock >= caller[t].wake
    /\ Return(t, caller[t].engine_name)
    /\ UNCHANGED clock
    /\ UNCHANGED <<engine_vars, client_vars, pure_vars>>

Tick ==
    /\ clock < MaxClock
    /\ clock' = clock + 1
    /\ UNCHANGED <<lock, last_call, caller, returned_at>>
    /\ UNCHANGED <<engine_vars, client_vars, pure_vars>>

NextLimiter ==
    \/ \E t \in Callers, e \in EngineSet : Call(t, e)
    \/ \E t \in Callers : Enter(t)
    \/ \E t \in Callers : Wake(t)
    \/ Tick

\* concurrent callers of one _RateLimiter
SpecLimiter == Init /\ [][NextLimiter]_vars

----------------------------------------------------------------------------
\* the engine with provider failures, raising callbacks and process crashes
Spec == Init /\ [][Next]_vars

NextFaulty ==
    \/ Run
    \/ \E p \in AllPairs : WorkerStart(p)
    \/ \E p \in AllPairs : ClientQuery(p)
    \/ \E p \in AllPairs : ClientRaises(p)
    \/ \E p \in AllPairs : StoreMention(p)
    \/ \E p \in AllPairs : StoreCitation(p)
    \/ \E p \in AllPairs : Consume(p)
    \/ Drain
    \/ FinalProgress
    \/ ComputeMetrics
    \/ ComputeWinners
    \/ CompleteRun
    \/ \E p \in AllPairs : ClientRaisesUnlogged(p)
    \/ \E p \in AllPairs : StoreRaises(p)

\* the engine in a process that stays alive, with storage operations of the
\* work items that may raise
SpecFaulty == Init /\ [][NextFaulty]_vars

NextMain ==
    \/ Next
    \/ \E p \in AllPairs : ConsumeRaises(p)
    \/ MainRaises

\* the same with storage operations of the main thread that may raise
SpecMain == Init /\ [][NextMain]_vars

NextPage ==
    \/ Next
    \/ PageLoad
    \/ MarkStuckFailed

\* the same with the "Run Benchmark" page's reset of stuck runs
SpecPage == Init /\ [][NextPage]_vars

NextDegraded ==
    \/ Next
    \/ \E p \in AllPairs : ClientQueryDegraded(p)

\* the engine with a normalizer that may fail
SpecDegraded == Init /\ [][NextDegraded]_vars

NextLive ==
    \/ RunWith(FALSE)
    \/ \E p \in AllPairs : WorkerStart(p)
    \/ \E p \in AllPairs : ClientQuery(p)
    \/ \E p \in AllPairs : ClientQueryUnplaced(p)
    \/ \E p \in AllPairs : ClientRaises(p)
    \/ \E p \in AllPairs : StoreMention(p)
    \/ \E p \in AllPairs : StoreCitation(p)
    \/ \E p \in AllPairs : ConsumeWith(p, FALSE)
    \/ FinalProgress
    \/ ComputeMetrics
    \/ ComputeWinners
    \/ CompleteRun

\* the engine in a process that stays alive, with a callback that returns, a
\* store that works and calls that return or raise: the pool runs every
\* submitted work item, as_completed yields every future that is done, and
\* the main thread goes on when nothing blocks it
SpecLive ==
    /\ Init
    /\ [][NextLive]_vars
    /\ \A p \in AllPairs :
          /\ WF_vars(WorkerStart(p))
          /\ WF_vars(ClientQuery(p) \/ ClientQueryUnplaced(p) \/ ClientRaises(p))
          /\ WF_vars(StoreMention(p))
          /\ WF_vars(StoreCitation(p))
          /\ WF_vars(ConsumeWith(p, FALSE))
    /\ WF_vars(FinalProgress)
    /\ WF_vars(ComputeMetrics)
    /\ WF_vars(ComputeWinners)
    /\ WF_vars(CompleteRun)

----------------------------------------------------------------------------
(* grok_client.py, openai_client.py, claude_client.py: query() under        *)
(* tenacity's @retry, called by one thread at a time                        *)

\* how an external request ends: a result, an exception of a transient kind
\* (connection, rate limit, server error) or another exception
Outcomes == {"ok", "transient", "other"}

\* retry=retry_if_exception_type(...): requests' RequestException for grok,
\* anthropic's connection, rate limit and server errors for claude, every
\* Exception for openai
retry_if_exception_type(c, err) ==
    c = "chatgpt_web_search" \/ err = "transient"

\* a retry decorator that never stops
stop_never(n) == FALSE

\* stop=stop_after_attempt(3)
stop_after_attempt(n) == n >= 3

\* a query() without the except branch around its first request
FallbackNone(c) == FALSE

\* query() of the client wraps its first request in try/except and then calls
\* _query_chat_completions (openai_client.py lines 38-41)
HasFallback(c) == c = "chatgpt_web_search"

\* the record of an external request
RequestRec(mode, out) ==
    [mode |-> mode, attempt |-> attempt_number, waited |-> waited[client],
     outcome |-> out]

\* an exception leaves the body of query(): tenacity re-raises it if it is not
\* of a retried type, raises RetryError after the last attempt, and sleeps
\* before the next attempt otherwise
AttemptFailed(err) ==
    IF ~retry_if_exception_type(client, err)
    THEN cpc' = "raised" /\ result' = err
    ELSE IF stop_after_attempt(attempt_number)
         THEN cpc' = "raised" /\ result' = "RetryError"
         ELSE cpc' = "backoff" /\ result' = result

\* a thread calls client.query(query_text): first attempt
Query(c) ==
    /\ cpc \in {"idle", "returned", "raised"}
    /\ client' = c
    /\ cpc' = "wait"
    /\ attempt_number' = 1
    /\ requests' = <<>>
    /\ result' = "none"
    /\ UNCHANGED waited
    /\ UNCHANGED <<engine_vars, limiter_vars, pure_vars>>

\* self._wait() at the head of query()
ClientWait ==
    /\ cpc = "wait"
    /\ waited' = [waited EXCEPT ![client] = TRUE]
    /\ cpc' = "request"
    /\ UNCHANGED <<client, attempt_number, requests, result>>
    /\ UNCHANGED <<engine_vars, limiter_vars, pure_vars>>

\* the first request of the attempt: requests.post, messages.create or
\* responses.create
Request(out) ==
    /\ cpc = "request"
    /\ requests' = Append(requests, RequestRec("primary", out))
    /\ waited' = [waited EXCEPT ![client] = FALSE]
    /\ IF out = "ok"
       THEN cpc' = "returned" /\ result' = "primary"
       ELSE IF HasFallback(client)
            THEN cpc' = "fallback" /\ result' = result
            ELSE AttemptFailed(out)
    /\ UNCHANGED <<client, attempt_number>>
    /\ UNCHANGED <<engine_vars, limiter_vars, pure_vars>>

\* _query_chat_completions after the first request raised
Fallback(out) ==
    /\ cpc = "fallback"
    /\ requests' = Append(requests, RequestRec("fallback", out))
    /\ waited' = [waited EXCEPT ![client] = FALSE]
    /\ IF out = "ok"
       THEN cpc' = "returned" /\ result' = "fallback"
       ELSE AttemptFailed(out)
    /\ UNCHANGED <<client, attempt_number>>
    /\ UNCHANGED <<engine_vars, limiter_vars, pure_vars>>

\* wait_exponential is slept through and the next attempt starts
Backoff ==
    /\ cpc = "backoff"
    /\ attempt_number' = attempt_number + 1
    /\ cpc' = "wait"
    /\ UNCHANGED <<client, waited, requests, result>>
    /\ UNCHANGED <<engine_vars, limiter_vars, pure_vars>>

NextClient ==
    \/ \E c \in EngineSet : Query(c)
    \/ ClientWait
    \/ \E out \in Outcomes : Request(out)
    \/ \E out \in Outcomes : Fallback(out)
    \/ Backoff

\* successive calls of the clients' query()
SpecClient == Init /\ [][NextClient]_vars

----------------------------------------------------------------------------
(* database.py: _classify_citation_domain on its own *)

\* the hosts given to the classifier: a brand domain or a foreign domain,
\* behind a prefix and before a suffix
HostPrefixes ==
    { <<>>, <<"w","w","w",".">>, <<"W","W","W",".">>, <<"w",".">>,
      <<"w","w","w",".","w","w","w",".">>,
      <<"e","v","e","n","t",".">>, <<"E","v","e","n","t",".">>,
      <<"w","w","w",".","e","v","e","n","t",".">>,
      <<"w","e","b",".">>, <<"m","y">>, <<"n","o","t">> }
HostCores ==
    { <<"o","n","2","4",".","c","o","m">>, <<"O","N","2","4",".","C","O","M">>,
      <<"g","o","l","d","c","a","s","t",".","i","o">>,
      <<"z","o","o","m",".","u","s">>,
      <<"x",".","o","r","g">>, <<>> }
HostSuffixes == { <<>>, <<".","x",".","n","e","t">> }
Hosts == {p \o c \o s : p \in HostPrefixes, c \in HostCores, s \in HostSuffixes}

\* _classify_citation_domain(url) for a url with the given host
Classify(h) ==
    /\ netloc' = h
    /\ classification' = classify_citation_domain(h)
    /\ UNCHANGED <<parser_vars, metric_vars, seed_vars, construct_vars,
                   run_vars>>
    /\ UNCHANGED <<engine_vars, limiter_vars, client_vars>>

NextClassifier == \E h \in Hosts : Classify(h)

\* the classifier applied to one host after another
SpecClassifier == Init /\ [][NextClassifier]_vars

----------------------------------------------------------------------------
(* parser.py: parse_response on its own *)

(* The answers of the secondary call that parse_response is applied to *)

\* a key that a dictionary does not have
Absent == [t |-> "absent"]
MkDict(o) == Dict([k \in {x \in DOMAIN o : o[x].t # "absent"} |-> o[k]])

BrandStrings ==
    { <<"o","n","2","4">>,
      <<" ","O","N","2","4"," ">>,
      <<"o","n"," ","2","4">>,
      <<"O","N","2","4",".","c","o","m">>,
      <<"G","o","l","d","c","a","s","t">>,
      <<"G","o","l","d"," ","C","a","s","t">>,
      <<"g","o","l","d","c","a","s","t",".","i","o">>,
      <<"z","o","o","m">>,
      <<"Z","o","o","m"," ","W","e","b","i","n","a","r","s">>,
      <<"z","o","o","m"," ","e","v","e","n","t","s">>,
      <<"Z","o","o","m"," ","(","W","e","b","i","n","a","r","s","/","E","v","e","n","t","s",")">>,
      <<"z","o","o","m"," ","m","e","e","t","i","n","g","s">>,
      <<"w","e","b","e","x">>,
      <<"O","N","2","4"," ","a","n","d"," ","G","o","l","d","c","a","s","t">>,
      <<"G","o","l","d","c","a","s","t"," ","v","s"," ","O","N","2","4">>,
      <<"o","t","h","e","r">>,
      <<>>,
      <<" ">> }

\* a mention as the prompt asks for it
GoodMention ==
    MkDict([brand |-> Str(Goldcast), position |-> Num(2),
            sentiment |-> Str("negative"), sentiment_score |-> Num(-5),
            is_primary_recommendation |-> Bool(FALSE)])

\* mentions that differ in their brand
BrandItems ==
    {MkDict([brand |-> b, brand_id |-> bi, position |-> Num(1),
             sentiment |-> Str("positive"), sentiment_score |-> Num(8),
             is_primary_recommendation |-> Bool(TRUE)]) :
        b \in {Absent, PyNone, Num(7)} \cup {Str(x) : x \in BrandStrings},
        bi \in {Absent, Str(<<"z","o","o","m"," ","e","v","e","n","t","s">>)}}

\* mentions of on24 that differ in their other fields
FieldItems ==
    {MkDict([brand |-> Str(On24), position |-> po, mention_order |-> mo,
             sentiment |-> se, sentiment_score |-> sc,
             is_primary_recommendation |-> pr]) :
        po \in {Absent, PyNone, Num(0), Num(2)},
        mo \in {Absent, Num(3)},
        se \in {Absent, PyNone, Str("positive")},
        sc \in {Absent, PyNone, Num(8), Str("high")},
        pr \in {Absent, PyNone, Bool(TRUE)}}

Items == BrandItems \cup FieldItems \cup {Str(On24)}

MentionLists ==
    {<<>>} \cup {<<m>> : m \in Items} \cup {<<m, GoodMention>> : m \in Items}
           \cup {<<GoodMention, m>> : m \in Items}

\* JSON documents: objects with a list of mentions, objects whose mentions
\* are missing or no list, and documents that are no objects
Docs ==
    {MkDict([mentions |-> List(q), brands_not_mentioned |-> List(<<Str(Zoom)>>),
             overall_winner |-> Str("on24")]) : q \in MentionLists}
    \cup
    {MkDict([mentions |-> mo, brands_mentioned |-> bm, brands_not_mentioned |-> bn,
             overall_winner |-> w]) :
        mo \in {Absent, PyNone, Num(0), Num(1), Str(On24), EmptyDict},
        bm \in {Absent, PyNone, List(<<GoodMention>>)},
        bn \in {Absent, List(<<Str(Zoom)>>)},
        w \in {Absent, Str("on24")}}
    \cup {List(<<>>), Num(1), PyNone, Str(On24)}

GoodDoc ==
    MkDict([mentions |-> List(<<GoodMention>>), brands_not_mentioned |-> List(<<Str(Zoom)>>),
            overall_winner |-> Str("on24")])

\* the texts in which the secondary call wraps document d
Texts(d) ==
    { <<Doc(d)>>,
      <<Ws, Doc(d), Ws>>,
      <<Fence, Json, Ws, Doc(d), Ws, Fence>>,
      <<Prose, Fence, Json, Doc(d), Fence, Prose>>,
      <<Fence, Ws, Doc(d), Fence>>,
      <<Fence, Json, Doc(d)>>,
      <<Fence, Doc(EmptyDict), Fence, Fence, Json, Doc(d), Fence>>,
      <<Prose, Doc(d)>>,
      <<Fence, Json, Prose, Fence, Doc(d)>> }

ParseInputs ==
    {[call |-> "raises", content |-> <<>>], [call |-> "ok", content |-> <<>>],
     [call |-> "ok", content |-> << <<>> >>],
     [call |-> "ok", content |-> << <<Prose>> >>],
     [call |-> "ok", content |-> << <<Fence>> >>],
     [call |-> "ok", content |-> << <<Prose, Fence, Json>> >>]}
    \cup {[call |-> "ok", content |-> << <<Doc(d)>> >>] : d \in Docs}
    \cup {[call |-> "ok", content |-> <<x>>] :
             x \in Texts(GoodDoc) \cup Texts(EmptyDict) \cup Texts(List(<<>>))}

\* parser.parse_response(raw_response_text) with the given outcome of the
\* secondary call
ParseResponse(input) ==
    /\ parse_input' = input
    /\ parse_result' = parse_response(input)
    /\ UNCHANGED <<classifier_vars, metric_vars, seed_vars, construct_vars,
                   run_vars>>
    /\ UNCHANGED <<engine_vars, limiter_vars, client_vars>>

NextParser == \E input \in ParseInputs : ParseResponse(input)

\* the normalizer applied to one answer after another
SpecParser == Init /\ [][NextParser]_vars

----------------------------------------------------------------------------
(* compute_daily_metrics on its own: the run has one successful response,   *)
(* whose mentions vary                                                      *)

MaxMentions == 2

\* the values the normalizer can hand to store_mention; sentiment scores in
\* tenths.  The first tracked brand takes every position, the others fewer;
\* labels go with the scores.
MentionPositions == {NULL, Some(-1), Some(0), Some(1), Some(2)}
MentionSentiments ==
    {[sentiment |-> "positive", sentiment_score |-> 10],
     [sentiment |-> "neutral", sentiment_score |-> -10]}
ParsedMentionValues ==
    {[brand |-> "on24", position |-> p, sentiment |-> s.sentiment,
      sentiment_score |-> s.sentiment_score, is_primary_recommendation |-> b] :
        p \in MentionPositions, s \in MentionSentiments, b \in BOOLEAN}
    \cup {[brand |-> "goldcast", position |-> p, sentiment |-> s.sentiment,
           sentiment_score |-> s.sentiment_score,
           is_primary_recommendation |-> b] :
             p \in {Some(-1), Some(1), Some(2)}, s \in MentionSentiments,
             b \in BOOLEAN}
    \cup {[brand |-> "zoom", position |-> Some(1), sentiment |-> s.sentiment,
           sentiment_score |-> s.sentiment_score,
           is_primary_recommendation |-> b] :
             s \in MentionSentiments, b \in BOOLEAN}
    \cup {[brand |-> "other", position |-> Some(1), sentiment |-> "positive",
           sentiment_score |-> 10, is_primary_recommendation |-> TRUE]}
    \* float(m.get("sentiment_score", 0.0)) keeps a score outside [-1.0, 1.0]
    \cup {[brand |-> "zoom", position |-> Some(1), sentiment |-> "negative",
           sentiment_score |-> -2500, is_primary_recommendation |-> FALSE]}

RECURSIVE MentionSets(_)
MentionSets(n) ==
    IF n = 0 THEN {{}}
    ELSE LET smaller == MentionSets(n - 1)
         IN  smaller \cup {S \cup {m} : S \in smaller, m \in ParsedMentionValues}

\* the set iteration orders of the processes, told apart by the two labels
\* that occur
MetricOrders == {o \in SentimentOrders : o[3] = "negative"}

MetricPair == <<1, "grok_web_search">>
MetricResponses == store_response({}, 1, MetricPair)
MetricResponse == CHOOSE r \in MetricResponses : TRUE

\* the mention loop of _run_single (engine.py lines 82-90) over parsed
RECURSIVE StoreMentions(_, _, _)
StoreMentions(rows, parsed, k) ==
    IF parsed = {} THEN rows
    ELSE LET m == CHOOSE x \in parsed : TRUE
         IN  StoreMentions(store_mention(rows, MetricResponse.id, k, m),
                           parsed \ {m}, k + 1)

\* the response's work item has stored its mentions
DrawMentions(parsed) ==
    /\ mpc = "empty"
    /\ metric_mentions' = StoreMentions({}, parsed, 1)
    /\ mpc' = "stored"
    /\ UNCHANGED <<metric_rows, metric_prev, metric_orders, metric_scan>>
    /\ UNCHANGED <<classifier_vars, parser_vars, seed_vars, construct_vars,
                   run_vars>>
    /\ UNCHANGED <<engine_vars, limiter_vars, client_vars>>

\* compute_daily_metrics(run_id), _compute_winners included, in a process
\* whose sets iterate in the given order, on a database that returns rows in
\* the order scan
ComputeDailyMetrics(order, scan) ==
    /\ mpc \in {"stored", "once"}
    /\ mpc = "once" => scan = metric_scan
    /\ metric_scan' = scan
    /\ metric_prev' = metric_rows
    /\ metric_orders' = Append(metric_orders, order)
    /\ IF MetricsRaise(MetricResponses, metric_mentions)
       THEN /\ metric_rows' = StoreMetrics(metric_rows, MetricResponses,
                                           metric_mentions, {}, order)
            /\ mpc' = "raised"
       ELSE /\ metric_rows' =
                  compute_winners(StoreMetrics(metric_rows, MetricResponses,
                                               metric_mentions, {}, order),
                                  scan)
            /\ mpc' = IF mpc = "stored" THEN "once" ELSE "twice"
    /\ UNCHANGED metric_mentions
    /\ UNCHANGED <<classifier_vars, parser_vars, seed_vars, construct_vars,
                   run_vars>>
    /\ UNCHANGED <<engine_vars, limiter_vars, client_vars>>

NextMetrics ==
    \/ \E parsed \in MentionSets(MaxMentions) : DrawMentions(parsed)
    \/ \E order \in MetricOrders : \E scan \in RowOrders :
          ComputeDailyMetrics(order, scan)

\* the metrics of one response computed, and computed again
SpecMetrics == Init /\ [][NextMetrics]_vars

----------------------------------------------------------------------------
(* seed_queries on its own: a library seeded again and again into a table   *)

MaxLibrary == 3
MaxSeeds == 3

\* the entries a library is drawn from; "subcategory" may be missing
LibraryEntries ==
    [query_text : {"q1", "q2"}, category : {"c1", "c2"},
     subcategory : {NULL, Some("s")}]

RECURSIVE Libraries(_)
Libraries(n) ==
    IF n = 0 THEN {<<>>}
    ELSE LET shorter == Libraries(n - 1)
         IN  shorter \cup {Append(l, q) : l \in {x \in shorter : Len(x) = n - 1},
                                          q \in LibraryEntries}

\* what the table holds before the first call: nothing, or a query of an
\* earlier library that has been deactivated since
SeededBefore ==
    {{}, {[id |-> 1, query_text |-> "q1", category |-> "c2",
           subcategory |-> NULL, is_active |-> 0]}}

\* the unique key of table queries
SameText(r, q) == r.query_text = q.query_text

\* the rowid of the next inserted row
NextId(rows) ==
    IF rows = {} THEN 1
    ELSE (CHOOSE n \in {r.id : r \in rows} : \A r \in rows : n >= r.id) + 1

\* INSERT OR REPLACE INTO queries: the row of that text is deleted first
insert_or_replace(rows, q) ==
    {r \in rows : ~SameText(r, q)}
    \cup {[id |-> NextId(rows), query_text |-> q.query_text,
           category |-> q.category, subcategory |-> q.subcategory,
           is_active |-> 1]}

\* INSERT OR IGNORE INTO queries (query_text, category, subcategory)
insert_or_ignore(rows, q) ==
    IF \E r \in rows : SameText(r, q) THEN rows
    ELSE rows \cup {[id |-> NextId(rows), query_text |-> q.query_text,
                     category |-> q.category, subcategory |-> q.subcategory,
                     is_active |-> 1]}

RECURSIVE seed_queries(_, _, _)
seed_queries(rows, library, i) ==
    IF i > Len(library) THEN rows
    ELSE seed_queries(insert_or_ignore(rows, library[i]), library, i + 1)

get_active_queries(rows) == {r \in rows : r.is_active = 1}

DrawLibrary(library, rows) ==
    /\ seeds = -1
    /\ query_library' = library
    /\ queries' = rows
    /\ seeds' = 0
    /\ UNCHANGED queries_once
    /\ UNCHANGED <<classifier_vars, parser_vars, metric_vars, construct_vars,
                   run_vars>>
    /\ UNCHANGED <<engine_vars, limiter_vars, client_vars>>

\* db.seed_queries(QUERY_LIBRARY), as at the start of every engine.run
SeedQueries ==
    /\ seeds >= 0
    /\ seeds < MaxSeeds
    /\ queries' = seed_queries(queries, query_library, 1)
    /\ queries_once' = IF seeds = 0 THEN queries' ELSE queries_once
    /\ seeds' = seeds + 1
    /\ UNCHANGED query_library
    /\ UNCHANGED <<classifier_vars, parser_vars, metric_vars, construct_vars,
                   run_vars>>
    /\ UNCHANGED <<engine_vars, limiter_vars, client_vars>>

NextSeed ==
    \/ \E library \in Libraries(MaxLibrary) : \E rows \in SeededBefore :
          DrawLibrary(library, rows)
    \/ SeedQueries

SpecSeed == Init /\ [][NextSeed]_vars

----------------------------------------------------------------------------
(* BenchmarkEngine() in a process whose settings lack some API keys         *)

\* a process starts; _get_secret has found the keys of the providers in creds
\* and returned None for the others
StartProcess(creds) ==
    /\ constructed = "ok"
    /\ credentials = EngineSet
    /\ inv = 0
    /\ credentials' = creds
    /\ constructed' = "none"
    /\ UNCHANGED <<classifier_vars, parser_vars, metric_vars, seed_vars,
                   run_vars>>
    /\ UNCHANGED <<engine_vars, limiter_vars, client_vars>>

\* BenchmarkEngine.__init__: GrokWebSearchClient() only formats its header
\* (f"Bearer {XAI_API_KEY}"); OpenAI(api_key=None) raises;
\* anthropic.Anthropic(api_key=None) raises or not, as the installed library
\* decides
Construct ==
    /\ constructed = "none"
    /\ \E anthropic_raises \in BOOLEAN :
          constructed' =
              IF \/ "chatgpt_web_search" \notin credentials
                 \/ "claude_parametric" \notin credentials /\ anthropic_raises
              THEN "failed" ELSE "ok"
    /\ UNCHANGED credentials
    /\ UNCHANGED <<classifier_vars, parser_vars, metric_vars, seed_vars,
                   run_vars>>
    /\ UNCHANGED <<engine_vars, limiter_vars, client_vars>>

NextConstruct ==
    \/ \E creds \in SUBSET EngineSet : StartProcess(creds)
    \/ Construct
    \/ Next

\* the engine constructed and run with any set of credentials
SpecConstruct == Init /\ [][NextConstruct]_vars

----------------------------------------------------------------------------
(* engine.py lines 69-71 with the clients' _wait and retries: the pool      *)
(* threads of concurrent work items pass _RateLimiter.wait and then the     *)
(* client's own _wait, on the first attempt and on every retry              *)

MaxGateClock == 13

\* GROK_DELAY_SECONDS, OPENAI_DELAY_SECONDS, CLAUDE_DELAY_SECONDS
\* (settings.py), in half seconds
CLIENT_DELAYS ==
    [e \in EngineSet |-> IF e = "grok_web_search" THEN 5 ELSE 3]

\* wait_exponential(multiplier=2, min=4, max=60): the first waits, in half
\* seconds
wait_exponential(n) == 8

\* a pool thread takes a work item of provider e and calls
\* self._rate_limiter.wait(engine_name) (line 69)
Submit(t, e) ==
    /\ work[t].st = "resting"
    /\ work' = [work EXCEPT ![t] = [st |-> "gate", engine_name |-> e,
                                    wake |-> 0, attempt_number |-> 1]]
    /\ UNCHANGED <<client_last_call, limiter_vars>>
    /\ UNCHANGED <<engine_vars, client_vars, function_vars, counter_vars,
                   overlap_vars>>

\* _RateLimiter.wait: the thread takes the lock and reads _last_call (lines
\* 33-36); with nothing to sleep it stamps _last_call and returns
GateEnter(t) ==
    /\ work[t].st = "gate"
    /\ LET e == work[t].engine_name
           delay == ENGINE_DELAYS[e]
           elapsed == clock - last_call[e]
       IN  /\ GateFree(e)
           /\ IF elapsed < delay
              THEN /\ lock' = [lock EXCEPT ![e] = t]
                   /\ work' = [work EXCEPT ![t].st = "gate_sleep",
                                           ![t].wake = clock + (delay - elapsed)]
                   /\ UNCHANGED last_call
              ELSE /\ last_call' = [last_call EXCEPT ![e] = clock]
                   /\ work' = [work EXCEPT ![t].st = "client", ![t].wake = 0]
                   /\ UNCHANGED lock
    /\ UNCHANGED <<clock, caller, returned_at, client_last_call>>
    /\ UNCHANGED <<engine_vars, client_vars, function_vars, counter_vars,
                   overlap_vars>>

\* the sleep under the lock is over: stamp, release and return (lines 37-38)
GateWake(t) ==
    /\ work[t].st = "gate_sleep"
    /\ clock >= work[t].wake
    /\ last_call' = [last_call EXCEPT ![work[t].engine_name] = clock]
    /\ lock' = [lock EXCEPT ![work[t].engine_name] = 0]
    /\ work' = [work EXCEPT ![t].st = "client", ![t].wake = 0]
    /\ UNCHANGED <<clock, caller, returned_at, client_last_call>>
    /\ UNCHANGED <<engine_vars, client_vars, function_vars, counter_vars,
                   overlap_vars>>

\* client.query calls self._wait(), which takes no lock: the thread reads the
\* client's _last_call and finds how long to sleep (grok_client.py 19-21,
\* openai_client.py 16-18, claude_client.py 14-16)
ClientWaitRead(t) ==
    /\ work[t].st = "client"
    /\ LET e == work[t].engine_name
           elapsed == clock - client_last_call[e]
       IN  work' = [work EXCEPT
                        ![t].st = "client_sleep",
                        ![t].wake = IF elapsed < CLIENT_DELAYS[e]
                                    THEN clock + (CLIENT_DELAYS[e] - elapsed)
                                    ELSE clock]
    /\ UNCHANGED <<client_last_call, limiter_vars>>
    /\ UNCHANGED <<engine_vars, client_vars, function_vars, counter_vars,
                   overlap_vars>>

\* self._last_call = time.time() (line 22 of grok_client.py), then the request
ClientWaitUpdate(t) ==
    /\ work[t].st = "client_sleep"
    /\ clock >= work[t].wake
    /\ client_last_call' = [client_last_call EXCEPT ![work[t].engine_name] = clock]
    /\ work' = [work EXCEPT ![t].st = "request", ![t].wake = 0]
    /\ UNCHANGED limiter_vars
    /\ UNCHANGED <<engine_vars, client_vars, function_vars, counter_vars,
                   overlap_vars>>

\* the request ends: query() returns, or raises for good, or tenacity sleeps
\* and calls query() again
RequestEnds(t, out) ==
    /\ work[t].st = "request"
    /\ work' =
          IF out # "ok"
             /\ retry_if_exception_type(work[t].engine_name, out)
             /\ ~stop_after_attempt(work[t].attempt_number)
          THEN [work EXCEPT ![t].st = "backoff",
                            ![t].wake = clock + wait_exponential(work[t].attempt_number)]
          ELSE [work EXCEPT ![t] = Resting]
    /\ UNCHANGED <<client_last_call, limiter_vars>>
    /\ UNCHANGED <<engine_vars, client_vars, function_vars, counter_vars,
                   overlap_vars>>

\* tenacity's sleep is over: the next attempt calls query(), which calls
\* self._wait() and not the engine's rate limiter
Retry(t) ==
    /\ work[t].st = "backoff"
    /\ clock >= work[t].wake
    /\ work' = [work EXCEPT ![t].st = "client", ![t].wake = 0,
                            ![t].attempt_number = work[t].attempt_number + 1]
    /\ UNCHANGED <<client_last_call, limiter_vars>>
    /\ UNCHANGED <<engine_vars, client_vars, function_vars, counter_vars,
                   overlap_vars>>

GateTick ==
    /\ clock < MaxGateClock
    /\ clock' = clock + 1
    /\ UNCHANGED <<lock, last_call, caller, returned_at, gate_vars>>
    /\ UNCHANGED <<engine_vars, client_vars, function_vars, counter_vars,
                   overlap_vars>>

NextGate ==
    \/ \E t \in GateThreads, e \in GateEngines : Submit(t, e)
    \/ \E t \in GateThreads : GateEnter(t)
    \/ \E t \in GateThreads : GateWake(t)
    \/ \E t \in GateThreads : ClientWaitRead(t)
    \/ \E t \in GateThreads : ClientWaitUpdate(t)
    \/ \E t \in GateThreads, out \in Outcomes : RequestEnds(t, out)
    \/ \E t \in GateThreads : Retry(t)
    \/ GateTick

\* concurrent work items from the rate limiter to the provider's answer
SpecGate == Init /\ [][NextGate]_vars

----------------------------------------------------------------------------
(* engine.run on a run over two active queries: the work items' outcomes    *)
(* and the writes of completed_queries, without mentions, citations and     *)
(* metrics                                                                  *)

\* engine.run(run_id=...) up to the submission of the work items (lines
\* 126-151); with no work left it computes the metrics, completes the run and
\* returns without writing completed_queries (lines 138-142)
CounterRun ==
    /\ counter_pc = "idle"
    /\ counter_runs < MaxInvocations
    /\ counter_runs' = counter_runs + 1
    /\ LET completed == get_completed_pairs(counter_responses)
           work_items == CounterPairs \ completed
       IN  /\ counter_done' = DoneAtStart(completed)
           /\ counter_item' = [p \in CounterPairs |->
                                 IF p \in work_items THEN "queued" ELSE "none"]
           /\ counter_pc' = IF work_items = {} THEN "idle" ELSE "pool"
    /\ UNCHANGED <<counter_responses, counter_completed>>
    /\ UNCHANGED <<engine_vars, limiter_vars, client_vars, function_vars,
                   gate_vars, overlap_vars>>

\* _run_single of pair p ends, with a stored response or with an error
\* placeholder (lines 68-108), and the as_completed loop counts it (lines
\* 153-168)
CounterItem(p, ok) ==
    /\ counter_pc = "pool"
    /\ counter_item[p] = "queued"
    /\ counter_responses' =
           IF ok THEN store_response(counter_responses, counter_runs, p)
           ELSE log_error(counter_responses, counter_runs, p)
    /\ counter_item' = [counter_item EXCEPT ![p] = "consumed"]
    /\ counter_done' = counter_done + 1
    /\ counter_completed' =
           IF counter_done' % 3 = 0 THEN counter_done' \div Len(ENGINES)
           ELSE counter_completed
    /\ UNCHANGED <<counter_pc, counter_runs>>
    /\ UNCHANGED <<engine_vars, limiter_vars, client_vars, function_vars,
                   gate_vars, overlap_vars>>

\* after the loop: update_run_progress(run_id, len(active_queries)), metrics,
\* complete_run, return (lines 170-174)
CounterFinal ==
    /\ counter_pc = "pool"
    /\ \A p \in CounterPairs : counter_item[p] \in {"none", "consumed"}
    /\ counter_completed' = Cardinality(CounterQueries)
    /\ counter_pc' = "idle"
    /\ UNCHANGED <<counter_responses, counter_item, counter_done, counter_runs>>
    /\ UNCHANGED <<engine_vars, limiter_vars, client_vars, function_vars,
                   gate_vars, overlap_vars>>

\* the process dies while the invocation executes
CounterCrash ==
    /\ counter_pc = "pool"
    /\ counter_pc' = "idle"
    /\ counter_item' = [p \in CounterPairs |-> "none"]
    /\ UNCHANGED <<counter_responses, counter_done, counter_completed,
                   counter_runs>>
    /\ UNCHANGED <<engine_vars, limiter_vars, client_vars, function_vars,
                   gate_vars, overlap_vars>>

NextCounter ==
    \/ CounterRun
    \/ \E p \in CounterPairs, ok \in BOOLEAN : CounterItem(p, ok)
    \/ CounterFinal
    \/ CounterCrash

\* a run over two queries, interrupted and resumed
SpecCounter == Init /\ [][NextCounter]_vars

----------------------------------------------------------------------------
(* two invocations of engine.run on the same run id at the same time: the   *)
(* one that created the run and a Resume clicked while the page shows the   *)
(* run as 'running', or two Resumes from two sessions                       *)

\* client.query has been called for the work item
Sent == {"sent", "ok", "error"}

\* invocation i up to the submission of its work items (lines 126-151); with
\* no work left it computes the metrics and returns (lines 138-142)
OverlapRun(i) ==
    /\ overlap_pc[i] = "idle"
    /\ LET completed == get_completed_pairs(overlap_responses)
           work_items == WorkItems(completed)
       IN  /\ overlap_item' =
                  [overlap_item EXCEPT ![i] =
                      [p \in AllPairs |->
                          IF p \in work_items THEN "queued" ELSE "none"]]
           /\ overlap_pc' =
                  [overlap_pc EXCEPT ![i] =
                      IF work_items = {} THEN "returned" ELSE "pool"]
    /\ UNCHANGED overlap_responses
    /\ UNCHANGED <<engine_vars, limiter_vars, client_vars, function_vars,
                   gate_vars, counter_vars>>

\* a pool thread of invocation i calls client.query for pair p (line 71)
OverlapCall(i, p) ==
    /\ overlap_pc[i] = "pool"
    /\ overlap_item[i][p] = "queued"
    /\ overlap_item' = [overlap_item EXCEPT ![i][p] = "sent"]
    /\ UNCHANGED <<overlap_responses, overlap_pc>>
    /\ UNCHANGED <<engine_vars, limiter_vars, client_vars, function_vars,
                   gate_vars, counter_vars>>

\* the provider answers and the work item stores its response (lines 75-99),
\* or client.query raises and the except branch logs the error (lines 101-108)
OverlapSettle(i, p, ok) ==
    /\ overlap_item[i][p] = "sent"
    /\ overlap_responses' =
           IF ok THEN store_response(overlap_responses, i, p)
           ELSE log_error(overlap_responses, i, p)
    /\ overlap_item' = [overlap_item EXCEPT ![i][p] = IF ok THEN "ok" ELSE "error"]
    /\ UNCHANGED overlap_pc
    /\ UNCHANGED <<engine_vars, limiter_vars, client_vars, function_vars,
                   gate_vars, counter_vars>>

\* every work item of invocation i has settled: metrics, complete_run, return
\* (lines 170-174)
OverlapReturn(i) ==
    /\ overlap_pc[i] = "pool"
    /\ \A p \in AllPairs : overlap_item[i][p] \in {"none", "ok", "error"}
    /\ overlap_pc' = [overlap_pc EXCEPT ![i] = "returned"]
    /\ UNCHANGED <<overlap_responses, overlap_item>>
    /\ UNCHANGED <<engine_vars, limiter_vars, client_vars, function_vars,
                   gate_vars, counter_vars>>

NextOverlap ==
    \/ \E i \in Invocations : OverlapRun(i)
    \/ \E i \in Invocations, p \in AllPairs : OverlapCall(i, p)
    \/ \E i \in Invocations, p \in AllPairs, ok \in BOOLEAN : OverlapSettle(i, p, ok)
    \/ \E i \in Invocations : OverlapReturn(i)

\* two invocations on one run id whose executions may overlap
SpecOverlap == Init /\ [][NextOverlap]_vars

----------------------------------------------------------------------------
(* Properties *)

PairOf(r) == <<r.query_id, r.llm_engine>>

\* the successful (non-placeholder) and the placeholder rows of a pair
OkRows(p) == {r \in responses : PairOf(r) = p /\ r.model_name # "error"}
ErrorRows(p) == {r \in responses : PairOf(r) = p /\ r.model_name = "error"}

\* the pairs that had a successful row when the current invocation started
CompletedBefore == {p \in AllPairs : \E r \in OkRows(p) : r.id[1] < inv}

\* the latest invocation has returned its run id
Returned == pc = "idle" /\ last_exit = "returned"

AfterPool == {"progress", "metrics", "winners", "complete"}

\* C1: whatever the sequence of starting, interrupting and resuming, a pair
\* never has more than one successful response row in the run.
C1_AtMostOneSuccess ==
    \A p \in AllPairs : Cardinality(OkRows(p)) <= 1

\* a resumed run has completed; one pair succeeded in the first invocation,
\* another, never answered in the first, in the second
C1_Witness ==
    /\ Returned /\ inv = 2 /\ status = "completed"
    /\ \E p, q \in AllPairs :
          /\ \E r \in OkRows(p) : r.id[1] = 1
          /\ \E r \in OkRows(q) : r.id[1] = 2
          /\ ErrorRows(q) = {}

\* C2: an invocation calls the provider for no pair that already had a
\* successful row, and once its pool is through it has called it for exactly
\* the other pairs, those with only placeholder rows included.
C2_ResumeWorkSet ==
    /\ called \subseteq AllPairs \ CompletedBefore
    /\ (pc \in AfterPool \/ (Returned /\ inv > 0))
           => called = AllPairs \ CompletedBefore

\* a resumption that skipped a completed pair, called again a pair that had
\* only a placeholder row and called a pair that had no row
C2_Witness ==
    /\ Returned /\ inv = 2
    /\ CompletedBefore # {}
    /\ \E p \in called : \E r \in ErrorRows(p) : r.id[1] = 1
    /\ \E q \in called : \A r \in responses : PairOf(r) = q => r.id[1] = 2

\* the mention and citation rows a work item stores for response r when it
\* runs to its end
FullMentionsOf(r) ==
    UNION {store_mention({}, r.id, k, ParsedMentions(PairOf(r))[k]) :
              k \in 1..Len(ParsedMentions(PairOf(r)))}
FullCitationsOf(r) ==
    UNION {store_citation({}, r.id, k, ResultCitations(PairOf(r))[k]) :
              k \in 1..Len(ResultCitations(PairOf(r)))}

\* the daily metrics of a run that reaches the same successful responses
\* without being interrupted
UninterruptedMetrics(order, scan) ==
    compute_winners(
        StoreMetrics({}, responses,
                     UNION {FullMentionsOf(r) : r \in get_responses_for_run(responses)},
                     UNION {FullCitationsOf(r) : r \in get_responses_for_run(responses)},
                     order),
        scan)

\* C3: when a run, interrupted and resumed or not, has completed, its daily
\* metrics are those of an uninterrupted run with the same provider outputs.
C3_ResumedMetricsAsUninterrupted ==
    (Returned /\ status = "completed")
        => \E order \in SentimentOrders : \E scan \in RowOrders :
               daily_metrics = UninterruptedMetrics(order, scan)

\* the invocation has written no response, mention or citation row
NoNewRows ==
    /\ \A r \in responses : r.id[1] < inv
    /\ \A m \in mentions : m.response_id[1] < inv
    /\ \A c \in citations : c.response_id[1] < inv

\* C4 as stated: an invocation on a run whose pairs all have a successful
\* response calls no provider, adds no row and leaves the daily metrics as
\* they were before it.
C4_ResumeOfCompleteRunChangesNothing ==
    (Returned /\ CompletedBefore = AllPairs)
        => called = {} /\ NoNewRows /\ daily_metrics = metrics0

\* the stored mentions of brand b in the responses of pair p
BrandMentions(p, b) ==
    {m \in mentions : m.brand = b /\
        \E r \in OkRows(p) : r.id = m.response_id}

\* several sentiment labels share the highest count
Tied(S) ==
    LET count(l) == Cardinality({m \in S : m.sentiment = l})
    IN  \E l1, l2 \in SentimentLabels :
           /\ l1 # l2
           /\ count(l1) > 0
           /\ count(l1) = count(l2)
           /\ \A l \in SentimentLabels : count(l) <= count(l1)

\* a metrics row without its dominant sentiment where the labels tie
Blur(r) ==
    IF Tied(BrandMentions(PairOf(r), r.brand))
    THEN [r EXCEPT !.dominant_sentiment = NULL] ELSE r

\* C4: an invocation on a run whose pairs all have a successful response
\* calls no provider and adds no row; if the invocation before it had
\* returned, the daily metrics are as before it, up to the dominant sentiment
\* of a brand whose sentiment labels tie.
C4_ResumeOfCompleteRunIdempotent ==
    (Returned /\ CompletedBefore = AllPairs)
        => /\ called = {}
           /\ NoNewRows
           /\ exit0 = "returned"
                 => {Blur(r) : r \in daily_metrics} = {Blur(r) : r \in metrics0}

\* a resumption of a completed run has returned and a tie was resolved to
\* another label than before
C4_Witness ==
    /\ Returned /\ CompletedBefore = AllPairs
    /\ exit0 = "returned"
    /\ called = {}
    /\ daily_metrics # metrics0

\* C5: no exception leaves a work item, and an invocation whose work items
\* met exceptions still sees each of its work items end and marks the run
\* completed.
C5_ItemFailureContained ==
    /\ \A p \in AllPairs : item[p].st # "raised"
    /\ (Returned /\ Submitted # {})
           => /\ \A p \in Submitted : item[p].st \in {"ok", "error", "unlogged"}
              /\ status = "completed"

\* an invocation has returned with one work item ended normally, one after a
\* logged exception and one after an exception that could not be logged
C5_Witness ==
    /\ Returned /\ status = "completed"
    /\ \E p, q, r \in AllPairs :
          item[p].st = "ok" /\ item[q].st = "error" /\ item[r].st = "unlogged"

\* C6: a work item whose client call failed leaves one placeholder row
\* (model 'error', empty text) and no response, mention or citation of its own;
\* every mention and citation refers to a stored response that is no
\* placeholder.
C6_ErrorPlaceholderIsolated ==
    /\ \A p \in AllPairs :
          item[p].st = "error"
              => /\ \E r \in responses :
                       /\ r.id = RowId(inv, p, "error")
                       /\ PairOf(r) = p
                       /\ r.model_name = "error"
                       /\ r.raw_response = ""
                 /\ \A r \in responses :
                       (PairOf(r) = p /\ r.id[1] = inv) => r.model_name = "error"
                 /\ \A m \in mentions : m.response_id # RowId(inv, p, "response")
                 /\ \A c \in citations : c.response_id # RowId(inv, p, "response")
    /\ \A m \in mentions :
          \E r \in responses : r.id = m.response_id /\ r.model_name # "error"
    /\ \A c \in citations :
          \E r \in responses : r.id = c.response_id /\ r.model_name # "error"

\* a run with a placeholder row next to a response that has mentions and
\* citations
C6_Witness ==
    /\ \E p \in AllPairs : item[p].st = "error"
    /\ mentions # {}
    /\ citations # {}

\* C7: from the end of the pool on no work item is queued or running, and the
\* response, mention and citation tables no longer change in the invocation.
C7_MetricsAfterAllItems ==
    [](pc \in AfterPool
          => \A p \in AllPairs : item[p].st \in {"none", "ok", "error", "unlogged"})
    /\ [][(pc \in AfterPool) => (UNCHANGED <<responses, mentions, citations>>)]_vars

\* the metrics are about to be computed after a pool of work items, one of
\* which succeeded and one of which failed
C7_Witness ==
    /\ pc = "metrics"
    /\ Cardinality(Submitted) > max_workers
    /\ \E p, q \in Submitted : item[p].st = "ok" /\ item[q].st = "error"

\* C8: no step of the engine writes the status 'failed', and a step that ends
\* an invocation by an exception or the death of the process leaves the status
\* of the run record as it is: 'running' for a run not yet completed.
C8_InterruptionLeavesRunning ==
    [][(status' # "failed") /\
       ((pc' = "idle" /\ last_exit' \in {"raised", "crashed"}
            /\ (pc # "idle" \/ inv' # inv))
           => (status' = (IF status = "none" THEN "running" ELSE status)))]_vars

\* an invocation ended by an exception after all its work items had been
\* consumed; the run is still 'running'
C8_Witness ==
    /\ pc = "idle" /\ last_exit = "raised"
    /\ status = "running"
    /\ Submitted # {} /\ consumed = Submitted

\* C9: a status 'completed' or 'failed' never changes.
C9_TerminalStatusStays ==
    [][(status \in {"completed", "failed"}) => (status' = status)]_vars

\* C10: two successive returns of wait() for an engine are at least the
\* engine's delay apart.
C10_ReturnsSpaced ==
    \A e \in EngineSet :
        Len(returned_at[e]) = 2
            => returned_at[e][2] - returned_at[e][1] >= ENGINE_DELAYS[e]

\* after two returns for an engine a thread sleeps in wait() for it while
\* another waits for its lock
C10_Witness ==
    \E e \in EngineSet, t1, t2 \in Callers :
        /\ Len(returned_at[e]) = 2
        /\ caller[t1].st = "sleeping" /\ caller[t1].engine_name = e
        /\ caller[t2].st = "blocked" /\ caller[t2].engine_name = e

\* thread t is at the with statement of wait() for an engine whose lock is
\* free and whose delay has elapsed
CanPass(t) ==
    /\ caller[t].st = "blocked"
    /\ lock[caller[t].engine_name] = 0
    /\ clock - last_call[caller[t].engine_name] >= ENGINE_DELAYS[caller[t].engine_name]

\* C11: a caller whose own engine's lock is free and whose own engine's delay
\* has elapsed can take the lock and return from wait() at once, whoever
\* holds or waits for the locks of the other engines.
C11_OtherEnginesDoNotBlock ==
    \A t \in Callers :
        CanPass(t) => ENABLED (Enter(t) /\ caller'[t] = Outside /\ clock' = clock)

\* a caller can pass for its engine while another thread sleeps with the
\* lock of another engine
C11_Witness ==
    \E t1, t2 \in Callers :
        /\ CanPass(t2)
        /\ caller[t1].st = "sleeping"
        /\ caller[t1].engine_name # caller[t2].engine_name
        /\ lock[caller[t1].engine_name] = t1

\* the work items that a pool thread has started and that have not returned
Running == {p \in AllPairs : item[p].st \in InFlight}

\* C12: at no moment of an invocation are more than max_workers work items
\* started and not yet returned.
C12_InFlightBounded ==
    Cardinality(Running) <= max_workers

\* max_workers work items are running while a further one is queued
C12_Witness ==
    /\ Cardinality(Running) = max_workers
    /\ \E p \in AllPairs : item[p].st = "queued"

Last(q) == q[Len(q)]

\* C13: every external request of a query() call is issued after a _wait()
\* of its client that followed the client's previous request.
C13_EveryRequestAfterWait ==
    \A i \in 1..Len(requests) : requests[i].waited

\* the call is one of OpenAISearchClient.query
DualMode == client = "chatgpt_web_search"

\* the attempts of the call in which the body of query() raised
FailedAttempts ==
    {requests[i].attempt : i \in {j \in 1..Len(requests) :
        /\ requests[j].outcome # "ok"
        /\ requests[j].mode = "fallback" \/ ~DualMode}}

\* C14: query() makes at most 3 attempts; a successful request ends the call
\* with a result; after a third failed attempt, or an exception that is not
\* retried, it raises; it returns a result only from a successful request.
C14_AtMostThreeAttempts ==
    /\ attempt_number <= 3
    /\ \A i \in 1..Len(requests) : requests[i].attempt \in 1..3
    /\ \A i \in 1..Len(requests) :
          requests[i].outcome = "ok" => (i = Len(requests) /\ cpc = "returned")
    /\ cpc = "returned"
          <=> (requests # <<>> /\ Last(requests).outcome = "ok")
    /\ result \in {"primary", "fallback"} <=> cpc = "returned"
    /\ cpc = "backoff" => attempt_number < 3
    /\ (FailedAttempts = 1..3)
          => /\ cpc = "raised"
             /\ (\A i \in 1..Len(requests) : requests[i].outcome = "transient")
                    => result = "RetryError"

\* a call has raised after three attempts that all failed with a transient
\* error
C14_Witness ==
    /\ cpc = "raised"
    /\ attempt_number = 3
    /\ FailedAttempts = 1..3
    /\ \A i \in 1..Len(requests) : requests[i].outcome = "transient"

\* C15: in the dual-mode client each attempt issues the web-search request
\* first and the chat-completions request only after it failed; a successful
\* fallback ends the call with the fallback's result in the same attempt; the
\* retry logic is reached only after both requests of an attempt failed.
C15_FallbackTransparent ==
    DualMode =>
        /\ \A i \in 1..Len(requests) :
              /\ (i = 1 \/ requests[i - 1].attempt # requests[i].attempt)
                     => requests[i].mode = "primary"
              /\ requests[i].mode = "fallback"
                     => /\ i > 1
                        /\ requests[i - 1].mode = "primary"
                        /\ requests[i - 1].outcome # "ok"
                        /\ requests[i - 1].attempt = requests[i].attempt
              /\ (requests[i].mode = "primary" /\ requests[i].outcome # "ok")
                     => (i < Len(requests) \/ cpc = "fallback")
        /\ (requests # <<>> /\ Last(requests).mode = "fallback"
                /\ Last(requests).outcome = "ok")
              => /\ cpc = "returned"
                 /\ result = "fallback"
                 /\ attempt_number = Last(requests).attempt
        /\ cpc \in {"backoff", "raised"}
              => /\ Last(requests).mode = "fallback"
                 /\ Last(requests).outcome # "ok"
        /\ Cardinality(FailedAttempts) =
              attempt_number - (IF cpc \in {"backoff", "raised"} THEN 0 ELSE 1)

\* the dual-mode client has returned the fallback's result in its first
\* attempt
C15_Witness ==
    /\ client = "chatgpt_web_search"
    /\ cpc = "returned"
    /\ result = "fallback"
    /\ attempt_number = 1
    /\ Len(requests) = 2

StripWww(h) ==
    IF Len(h) >= 4 /\ SubSeq(h, 1, 4) = <<"w","w","w",".">>
    THEN SubSeq(h, 5, Len(h)) ELSE h

\* host h is the domain d or a sub-domain of it
SuffixMatch(h, d) ==
    \/ StripWww(h) = d
    \/ /\ Len(StripWww(h)) > Len(d)
       /\ SubSeq(StripWww(h), Len(StripWww(h)) - Len(d), Len(StripWww(h)))
              = <<".">> \o d

\* C20: a host is associated with a tracked brand exactly if, lower-cased and
\* without one leading "www.", it is the brand's domain or ends with "." and
\* the domain; every other host is 'other'; url_domain is the lower-cased
\* host.
C20_DomainSuffixMatch ==
    /\ classification.url_domain = lower(netloc)
    /\ classification.brand_association = "on24"
          <=> SuffixMatch(lower(netloc), On24Com)
    /\ classification.brand_association = "goldcast"
          <=> SuffixMatch(lower(netloc), GoldcastIo)
    /\ classification.brand_association = "zoom"
          <=> SuffixMatch(lower(netloc), ZoomUs)
    /\ classification.brand_association \in {"on24", "goldcast", "zoom", "other"}

\* the secondary call answered with a text that holds one JSON document
AnsweredJson ==
    /\ parse_input.call = "ok"
    /\ parse_input.content # <<>>
    /\ JsonValid(Unfenced(parse_input.content[1]))

\* that document
AnsweredDoc == JsonLoads(Unfenced(parse_input.content[1]))

\* the document is no object, or it has no list of mentions (under "mentions"
\* or "brands_mentioned"), or an item of the list is no object
WrongStructure(doc) ==
    \/ doc.t # "dict"
    \/ MentionsRaw(doc).t # "list"
    \/ get(doc, "mentions", List(<<>>)).t # "list"
    \/ /\ "mentions" \notin DOMAIN doc.v
       /\ get(doc, "brands_mentioned", PyNone).t # "list"
    \/ \E i \in 1..Len(MentionsRaw(doc).v) : MentionsRaw(doc).v[i].t # "dict"

\* C16: when the secondary call fails, its text is no valid JSON or the JSON
\* has the wrong structure, parse_response returns the degraded result: no
\* mentions, the three tracked brands not mentioned, winner 'none' and a
\* parse_error marker.
C16_DegradedOnFailure ==
    (~AnsweredJson \/ WrongStructure(AnsweredDoc))
        => /\ parse_result.parse_error
           /\ parse_result.mentions = <<>>
           /\ parse_result.brands_not_mentioned.v = <<Str(On24), Str(Goldcast), Str(Zoom)>>
           /\ parse_result.overall_winner.v = "none"

\* the items of the answered document, when parse_response normalized them
NormalizedItems ==
    IF parse_result.parse_error THEN <<>> ELSE MentionsRaw(AnsweredDoc).v

\* the brand string of item m, lower-cased and trimmed
BrandString(m) == strip(lower(RawBrand(m).v))

\* C17 as stated: every mention of a result has a brand of the closed set,
\* and a brand string that is the key or an alias of a brand or holds its
\* display name is mapped to that brand.
C17_EveryMatchingBrandWins ==
    \A i \in 1..Len(parse_result.mentions) :
        /\ parse_result.mentions[i].brand \in VALID_BRANDS
        /\ \A j \in 1..Len(BRAND_DEFINITIONS) :
              BrandMatches(BRAND_DEFINITIONS[j], BrandString(NormalizedItems[i]))
                  => parse_result.mentions[i].brand = BRAND_DEFINITIONS[j].key

\* the brand that the registry gives to brand string x: the first of on24,
\* goldcast and zoom that matches, else other
RegistryBrand(x) ==
    IF BrandMatches(BRAND_DEFINITIONS[1], x) THEN On24
    ELSE IF BrandMatches(BRAND_DEFINITIONS[2], x) THEN Goldcast
    ELSE IF BrandMatches(BRAND_DEFINITIONS[3], x) THEN Zoom
    ELSE Other

\* C17: every mention of a result has a brand of the closed set: the
\* lower-cased and trimmed brand string itself if it is on24, goldcast, zoom or
\* other, else the first brand in registry order whose key or alias it is or
\* whose display name it holds, else other.
C17_BrandInClosedSet ==
    /\ Len(parse_result.mentions) = Len(NormalizedItems)
    /\ \A i \in 1..Len(parse_result.mentions) :
          /\ parse_result.mentions[i].brand \in VALID_BRANDS
          /\ parse_result.mentions[i].brand =
                 IF BrandString(NormalizedItems[i]) \in VALID_BRANDS
                 THEN BrandString(NormalizedItems[i])
                 ELSE RegistryBrand(BrandString(NormalizedItems[i]))

\* a brand string naming goldcast and on24 has been mapped to on24, next to
\* an unknown brand mapped to other in another answer's place
C17_Witness ==
    /\ ~parse_result.parse_error
    /\ Len(parse_result.mentions) = 2
    /\ RawBrand(NormalizedItems[1]).v = <<"G","o","l","d","c","a","s","t"," ","v","s"," ","O","N","2","4">>
    /\ parse_result.mentions[1].brand = On24
    /\ parse_result.mentions[2].brand = Goldcast

\* the value of key k of item m is missing: no key, or null
Missing(m, k) == get(m, k, PyNone).t = "None"

\* the answer is an object whose "mentions" is a list of objects, each with a
\* string as brand and a number, null or nothing as sentiment score
WellFormedButForMissing ==
    /\ AnsweredJson
    /\ AnsweredDoc.t = "dict"
    /\ get(AnsweredDoc, "mentions", PyNone).t = "list"
    /\ \A i \in 1..Len(AnsweredDoc.v["mentions"].v) :
          LET m == AnsweredDoc.v["mentions"].v[i]
          IN  /\ m.t = "dict"
              /\ RawBrand(m).t = "str"
              /\ get(m, "sentiment_score", PyNone).t \in {"None", "num"}

\* C18: a mention whose sentiment, sentiment score, position or primary flag
\* is missing (no key, or null) is kept, with 'neutral', 0.0, 1 and false in
\* the place of what is missing; the fields that are there are kept as they
\* are, in this and in the other mentions.
C18_MissingFieldsCoerced ==
    WellFormedButForMissing =>
        /\ Len(parse_result.mentions) = Len(AnsweredDoc.v["mentions"].v)
        /\ \A i \in 1..Len(parse_result.mentions) :
              LET m == AnsweredDoc.v["mentions"].v[i]
                  r == parse_result.mentions[i]
              IN  /\ r.sentiment.t = "str"
                  /\ r.sentiment.v =
                         (IF Missing(m, "sentiment") THEN "neutral" ELSE m.v["sentiment"].v)
                  /\ r.sentiment_score =
                         (IF Missing(m, "sentiment_score") THEN 0
                          ELSE m.v["sentiment_score"].v)
                  /\ (Missing(m, "position") /\ Missing(m, "mention_order"))
                         => (r.position.t = "num" /\ r.position.v = 1)
                  /\ r.is_primary_recommendation =
                         (IF Missing(m, "is_primary_recommendation") THEN FALSE
                          ELSE Truthy(m.v["is_primary_recommendation"]))

----------------------------------------------------------------------------
(* C21: at every point, also after a recomputation and after a resume, no   *)
(* two DailyMetric rows of the run have the same (query, provider, brand)   *)
C21_OneRowPerKey ==
    \A a, b \in daily_metrics :
        (a.query_id = b.query_id /\ a.llm_engine = b.llm_engine /\ a.brand = b.brand)
        => a = b

\* the second invocation has recomputed the metrics over the rows, winner
\* flags included, that the first one left
C21_Witness ==
    /\ inv = 2
    /\ pc = "complete"
    /\ \E r \in metrics0 : r.is_winner = 1
    /\ Cardinality(daily_metrics) = Cardinality(AllPairs) * Len(TRACKED_BRANDS)

----------------------------------------------------------------------------
\* the DailyMetric rows of pair p and brand b
MetricRows(p, b) ==
    {r \in daily_metrics : r.query_id = p[1] /\ r.llm_engine = p[2] /\ r.brand = b}

----------------------------------------------------------------------------
\* the stored mentions of brand b in the metrics-only database
MetricMentions(b) == {m \in metric_mentions : m.brand = b}

\* a row without its dominant sentiment where the brand's labels tie
Untied(r) ==
    IF Tied(MetricMentions(r.brand))
    THEN [r EXCEPT !.dominant_sentiment = NULL] ELSE r

(* C23, as stated: compute_daily_metrics run a second time over unchanged   *)
(* rows leaves the DailyMetric rows, winner flags included, as the first    *)
(* run left them                                                            *)
C23_RecomputationSameRows ==
    mpc = "twice" => metric_rows = metric_prev

(* C23, amended: a second compute_daily_metrics over unchanged rows leaves  *)
(* the same DailyMetric rows with the same fields and winner flags, except  *)
(* that the dominant sentiment of a brand whose labels tie may change when  *)
(* the second computation runs in another process                           *)
C23_RecomputationSameRowsUpToTies ==
    mpc = "twice" =>
        /\ {Untied(r) : r \in metric_rows} = {Untied(r) : r \in metric_prev}
        /\ metric_orders[1] = metric_orders[2] => metric_rows = metric_prev
        /\ \A a, b \in metric_rows : a.brand = b.brand => a = b

\* a second computation, in another process, over rows that had a winner has
\* resolved a tie of labels the other way
C23_Witness ==
    /\ mpc = "twice"
    /\ metric_orders[1] # metric_orders[2]
    /\ \E r \in metric_prev : r.is_winner = 1 /\ r.mention_count = 2
    /\ metric_rows # metric_prev

----------------------------------------------------------------------------
\* the rows of the (query, provider) group of row r
GroupOf(r) ==
    {m \in metric_rows : m.query_id = r.query_id /\ m.llm_engine = r.llm_engine}

\* two rows have the same winner score
SameScore(a, b) == ~Greater(Score(a), Score(b)) /\ ~Greater(Score(b), Score(a))

(* C24: in every (query, provider) group at most one DailyMetric row has    *)
(* is_winner = 1, a row with is_winner = 1 has is_mentioned = 1, and a      *)
(* group with no mentioned brand has no winner                              *)
C24_AtMostOneWinner ==
    \A r \in metric_rows :
        LET winners == {m \in GroupOf(r) : m.is_winner = 1}
        IN  /\ Cardinality(winners) <= 1
            /\ \A m \in winners : m.is_mentioned = 1
            /\ (\A m \in GroupOf(r) : m.is_mentioned = 0) => winners = {}

\* two mentioned brands of a group have the same score, and one row of the
\* group is the winner
C24_Witness ==
    /\ mpc = "once"
    /\ \E a, b \in metric_rows :
          /\ a.brand # b.brand
          /\ a.is_mentioned = 1 /\ b.is_mentioned = 1
          /\ SameScore(a, b)
          /\ a.is_winner = 1 /\ b.is_winner = 0

----------------------------------------------------------------------------
\* the score as the claim states it, a fraction: 100 if primary recommendation,
\* plus 10 / first-mention position where that quotient exists, plus 5 times
\* the average sentiment (kept in tenths as <<sum, count>>)
StatedScore(m) ==
    LET p == m.first_mention_position
        a == m.avg_sentiment_score
        divides == p # NULL /\ p[1] # 0
        d == IF divides THEN p[1] ELSE 1
        n == a[2]
    IN  <<(IF m.is_primary_recommendation = 1 THEN 100 ELSE 0) * 10 * n * d
            + (IF divides THEN 10 ELSE 0) * 10 * n
            + 5 * a[1] * d,
          10 * n * d>>

\* the place of row m in the order in which the database returns its group
ScanIndex(m) == CHOOSE i \in 1..Len(metric_scan) : metric_scan[i] = m.brand

(* C25: the winner of a group is a mentioned brand whose score is at least  *)
(* the score of every other mentioned brand of the group, and among the     *)
(* brands with that score it is the first in iteration order                *)
C25_WinnerHasMaximalScore ==
    \A w \in metric_rows :
        w.is_winner = 1 =>
            /\ w.is_mentioned = 1
            /\ \A m \in GroupOf(w) :
                  m.is_mentioned = 1 =>
                      /\ ~Greater(StatedScore(m), StatedScore(w))
                      /\ ~Greater(StatedScore(w), StatedScore(m))
                             => ScanIndex(w) <= ScanIndex(m)

\* on a database that returns goldcast before on24, both are mentioned with
\* the same score, on24 without a position, and goldcast is the winner
C25_Witness ==
    /\ mpc = "once"
    /\ metric_scan[1] = "goldcast"
    /\ \E w, m \in metric_rows :
          /\ w.brand = "goldcast" /\ m.brand = "on24"
          /\ w.is_winner = 1 /\ m.is_mentioned = 1
          /\ m.first_mention_position = NULL
          /\ ~Greater(StatedScore(w), StatedScore(m))

----------------------------------------------------------------------------
\* the rows of the group of r that are mentioned and flagged primary
PrimaryRows(r) ==
    {m \in GroupOf(r) : m.is_mentioned = 1 /\ m.is_primary_recommendation = 1}

\* every stored mention of a brand other than b has a position >= 1 and a
\* sentiment score within [-1.0, 1.0]
OthersInRange(b) ==
    \A m \in metric_mentions :
        m.brand # b =>
            /\ m.mention_position # NULL
            /\ m.mention_position[1] >= 1
            /\ m.sentiment_score >= -10 /\ m.sentiment_score <= 10

\* every stored mention of brand b has a sentiment score within [-1.0, 1.0],
\* the range of a Mention's score
OwnScoresInRange(b) ==
    \A m \in metric_mentions :
        m.brand = b => (m.sentiment_score >= -10 /\ m.sentiment_score <= 10)

----------------------------------------------------------------------------
(* C27: for a tracked brand with mentions in a successful response the      *)
(* stored first_mention_position is the least mention position among the    *)
(* brand's mentions of that response; for a brand without mentions it is    *)
(* null                                                                     *)
C27_FirstPositionIsMinimum ==
    \A r \in metric_rows :
        LET S == MetricMentions(r.brand)
        IN  /\ S = {} => r.first_mention_position = NULL
            /\ S # {} =>
                  /\ \E m \in S : r.first_mention_position = m.mention_position
                  /\ \A m \in S :
                        m.mention_position # NULL =>
                            /\ r.first_mention_position # NULL
                            /\ r.first_mention_position[1] <= m.mention_position[1]

\* a brand mentioned at position 2 and at position 1 has position 1 stored,
\* another brand has no mention and no position
C27_Witness ==
    /\ mpc = "once"
    /\ \E r, u \in metric_rows :
          /\ r.mention_count = 2
          /\ \E m \in MetricMentions(r.brand) : m.mention_position = Some(2)
          /\ r.first_mention_position = Some(1)
          /\ MetricMentions(u.brand) = {}
          /\ u.first_mention_position = NULL

----------------------------------------------------------------------------
(* C28: seed_queries called again with the same library leaves the Query    *)
(* rows that the first call left: no row is added, no text occurs twice and *)
(* no id changes                                                            *)
C28_SeedingIdempotent ==
    seeds >= 1 =>
        /\ queries = queries_once
        /\ \A a, b \in queries :
              (a.query_text = b.query_text \/ a.id = b.id) => a = b
        /\ \A i \in 1..Len(query_library) :
              \E r \in queries : r.query_text = query_library[i].query_text

\* a library of three entries, two of them with the same text, has been seeded
\* three times into a table that held one of its texts
C28_Witness ==
    /\ seeds = 3
    /\ Len(query_library) = 3
    /\ query_library[1].query_text = query_library[3].query_text
    /\ query_library[1].category # query_library[3].category
    /\ \E r \in queries : r.is_active = 0
    /\ Cardinality(get_active_queries(queries)) = 1
    /\ Cardinality(queries) = 2

----------------------------------------------------------------------------
(* C29: when the credential of a provider is absent, constructing           *)
(* BenchmarkEngine fails: the engine is not constructed, no run record is   *)
(* created and no call goes to a provider whose credential is missing       *)
C29_MissingCredentialFailsConstruction ==
    credentials # EngineSet =>
        /\ constructed # "ok"
        /\ status = "none"
        /\ \A p \in called : p[2] \in credentials

----------------------------------------------------------------------------
(* C30: a work item whose normalization failed has, once it is settled,     *)
(* recorded an error placeholder for its pair and no successful Response,   *)
(* so that the pair is not among the completed pairs and a resumed run      *)
(* attempts it again                                                        *)
C30_NormalizationFailureIsPlaceholder ==
    \A p \in AllPairs :
        (item[p].degraded /\ FutureDone(item[p])) =>
            /\ \E r \in ErrorRows(p) : r.id[1] = inv
            /\ \A r \in OkRows(p) : r.id[1] # inv
            /\ p \notin get_completed_pairs(responses)

----------------------------------------------------------------------------
\* the invocation has left the as_completed loop without an exception
PastLoop == pc \in AfterPool /\ Submitted # {}

(* C31: in an invocation with work items the progress callback is called    *)
(* once at the start and once per settled work item, successful or failed:  *)
(* the first count is the number of pairs already completed, every further  *)
(* count is one more than the one before, no count exceeds the total and    *)
(* the last count is the total                                              *)
C31_ProgressCounts ==
    /\ reported # <<>> =>
          /\ reported[1] = Cardinality(CompletedBefore)
          /\ \A i \in 1..Len(reported) : reported[i] <= total_steps
          /\ \A i \in 1..(Len(reported) - 1) : reported[i + 1] = reported[i] + 1
    /\ pc = "pool" => Len(reported) = 1 + Cardinality(consumed)
    /\ PastLoop =>
          /\ Len(reported) = 1 + Cardinality(Submitted)
          /\ reported[Len(reported)] = total_steps

\* a resumed invocation that found one pair completed has settled a failed
\* and a successful work item and has reported 1, 2 and 3 of 3
C31_Witness ==
    /\ PastLoop
    /\ inv = 2
    /\ reported = <<1, 2, 3>>
    /\ \E p, q \in Submitted : item[p].st = "error" /\ item[q].st = "ok"

----------------------------------------------------------------------------
\* the thread is between the read and the update of a last-call timestamp of
\* provider e: inside _RateLimiter.wait or inside the client's _wait
InsideWait(t, e) ==
    /\ work[t].engine_name = e
    /\ work[t].st \in {"gate_sleep", "client_sleep"}

(* C32: no two concurrent work items are at the same time inside a          *)
(* rate-limit wait (between the read and the update of a last-call          *)
(* timestamp) of the same provider, the client's own wait on first attempts *)
(* and on retries included                                                  *)
C32_OneWaiterPerProvider ==
    \A e \in EngineSet : \A t, u \in GateThreads :
        (InsideWait(t, e) /\ InsideWait(u, e)) => t = u

----------------------------------------------------------------------------
\* the score with the position term as the claim states it: 10 / position
\* only for a position that is present and greater than 0
PositiveScore(m) ==
    LET p == m.first_mention_position
        a == m.avg_sentiment_score
        divides == p # NULL /\ p[1] > 0
        d == IF divides THEN p[1] ELSE 1
        n == a[2]
    IN  <<(IF m.is_primary_recommendation = 1 THEN 100 ELSE 0) * 10 * n * d
            + (IF divides THEN 10 ELSE 0) * 10 * n
            + 5 * a[1] * d,
          10 * n * d>>

(* C33: the position term 10 / first_mention_position enters the winner     *)
(* score only for a position that is present and greater than 0, a position *)
(* of 0 or below adds nothing: the winner of a group has the highest score  *)
(* computed that way                                                        *)
C33_PositionTermOnlyWhenPositive ==
    \A w \in metric_rows :
        w.is_winner = 1 =>
            \A m \in GroupOf(w) :
                m.is_mentioned = 1 => ~Greater(PositiveScore(m), PositiveScore(w))

----------------------------------------------------------------------------
(* C35: after the metrics computation every group with a mentioned brand    *)
(* has exactly one row with is_winner = 1, whatever primary flags,          *)
(* positions and sentiment scores the normalizer has stored                 *)
C35_ExactlyOneWinner ==
    mpc \in {"once", "twice"} =>
        \A r \in metric_rows :
            (\E m \in GroupOf(r) : m.is_mentioned = 1) =>
                Cardinality({m \in GroupOf(r) : m.is_winner = 1}) = 1

----------------------------------------------------------------------------
\* the Response rows that the work item of pair p has stored in the executing
\* invocation
AttemptRows(p) == {r \in responses : PairOf(r) = p /\ r.id[1] = inv}

(* C34: a settled work item has recorded exactly one Response row in its    *)
(* attempt, a successful row or an error placeholder, never both and never  *)
(* none, also when a storage operation fails in the middle of the work item *)
(* or while the placeholder is written                                      *)
C34_OneRowPerSettledItem ==
    \A p \in AllPairs :
        FutureDone(item[p]) => Cardinality(AttemptRows(p)) = 1

----------------------------------------------------------------------------
(* C36: whenever the run's status is 'completed' its stored                 *)
(* completed_queries equals its total_queries, on the normal path and on    *)
(* the resume path that finds no work left and goes straight to the         *)
(* aggregation                                                              *)
C36_CompletedRunShowsTotal ==
    status = "completed" => completed_queries = total_queries

----------------------------------------------------------------------------
(* C37: over the whole life of a run, across interruptions and resumes, the *)
(* stored completed_queries never decreases and never exceeds total_queries *)
C37_CompletedCountMonotonic ==
    /\ [](counter_completed <= Cardinality(CounterQueries))
    /\ [][counter_completed' >= counter_completed]_vars

----------------------------------------------------------------------------
\* both invocations execute
Overlapping == \A i \in Invocations : overlap_pc[i] = "pool"

(* C39: when two invocations of engine.run on the same run id overlap in    *)
(* time, no pair is sent to a provider by both of them and no pair ends up  *)
(* with two successful Response rows                                        *)
C39_OverlapSendsOnce ==
    \A p \in AllPairs :
        /\ Overlapping => ~(\A i \in Invocations : overlap_item[i][p] \in Sent)
        /\ Cardinality({r \in overlap_responses :
                           PairOf(r) = p /\ r.model_name # "error"}) <= 1

----------------------------------------------------------------------------
(* C40: at every point at which the process can be interrupted, a pair that *)
(* has a non-error Response row, and is therefore skipped on resume, has    *)
(* all Mention and Citation rows of that response stored                    *)
C40_CompletedPairHasItsRows ==
    \A r \in responses :
        PairOf(r) \in get_completed_pairs(responses) /\ r.model_name # "error" =>
            /\ FullMentionsOf(r) \subseteq mentions
            /\ FullCitationsOf(r) \subseteq citations

----------------------------------------------------------------------------
(* C38: when every provider and normalizer call returns or raises and the   *)
(* store works, every invocation of engine.run eventually marks the run     *)
(* completed, whatever number of its work items fail                        *)
C38_EveryInvocationCompletes ==
    \A n \in 1..MaxInvocations :
        (inv = n /\ pc # "idle") ~> (inv = n /\ Returned /\ status = "completed")

====
